---- MODULE Spec2Model ----
(***************************************************************************)
(* Spacewar-js: the ship state machine (Ship.js), the projectile           *)
(* (Bullet.js), the sun (Sun.js) and the simulation step (Game.js).        *)
(*                                                                         *)
(* Number representation.  Every real quantity q of the JavaScript code    *)
(* (a length in pixels, a speed in pixels per frame, an angle in radians,  *)
(* an energy or a fuel amount) is held as the integer q * 1000,            *)
(* "milli-units".  Products and quotients truncate toward zero.  Distances *)
(* are computed on coordinates reduced to tenths of a pixel so that the    *)
(* squares stay inside 32-bit integers.                                    *)
(***************************************************************************)
EXTENDS Integers, Sequences, FiniteSets, TLC

(***************************************************************************)
(* Fixed-point arithmetic                                                  *)
(***************************************************************************)
Abs(n) == IF n < 0 THEN -n ELSE n

\* JavaScript's a / b on the fixed-point grid: the quotient truncated toward 0.
Quot(a, b) == IF (a < 0) = (b < 0) THEN Abs(a) \div Abs(b) ELSE -(Abs(a) \div Abs(b))

RECURSIVE IsqrtIter(_, _, _)
IsqrtIter(n, lo, hi) ==
    IF lo >= hi THEN lo
    ELSE LET mid == (lo + hi + 1) \div 2
         IN  IF mid * mid <= n THEN IsqrtIter(n, mid, hi) ELSE IsqrtIter(n, lo, mid - 1)

\* Math.sqrt on naturals below 2^31: the integer part of the square root.
Isqrt(n) == IsqrtIter(n, 0, 46340)

\* pi, pi/2 and 2*pi in milliradians.
PiM == 3142
HalfPiM == 1571
TwoPiM == 6283

\* sin x for 0 <= x <= pi/2 (milliradians in, thousandths out): the Taylor
\* polynomial x - x^3/3! + x^5/5! - x^7/7!.
SinQ(x) ==
    LET x2 == (x * x) \div 1000
        x4 == (x2 * x2) \div 1000
        x6 == (x4 * x2) \div 1000
        t  == x - (x * x2) \div 6000 + (x * x4) \div 120000 - (x * x6) \div 5040000
    IN  IF t > 1000 THEN 1000 ELSE t

\* Math.sin: any angle (arbitrary winding) reduced to a quadrant.
Sin(a) ==
    LET r == a % TwoPiM
    IN  IF r <= HalfPiM THEN SinQ(r)
        ELSE IF r <= PiM THEN SinQ(PiM - r)
        ELSE IF r <= PiM + HalfPiM THEN -SinQ(r - PiM)
        ELSE -SinQ(TwoPiM - r)

\* Math.cos
Cos(a) == Sin(a + HalfPiM)

(***************************************************************************)
(* Vector2.js: vectors are records [x, y] in milli-units.                  *)
(***************************************************************************)
Vec(x, y) == [x |-> x, y |-> y]

Vector2_add(v, w) == Vec(v.x + w.x, v.y + w.y)

Vector2_subtract(v, w) == Vec(v.x - w.x, v.y - w.y)

\* v * k for a fixed-point scalar k (thousandths).
Vector2_multiply(v, k) == Vec(Quot(v.x * k, 1000), Quot(v.y * k, 1000))

\* |v| for a velocity (components well below 32 pixels per frame).
Vector2_magnitude(v) == Isqrt(v.x * v.x + v.y * v.y)

\* v / |v| * k: normalize() followed by multiply(k); the zero vector is kept.
\* The magnitude is rounded up and the components toward zero, so that the
\* result on the grid is never longer than k.
Vector2_normalizeTo(v, k) ==
    LET floor == Vector2_magnitude(v)
        mag == IF floor * floor = v.x * v.x + v.y * v.y THEN floor ELSE floor + 1
    IN  IF mag > 0 THEN Vec(Quot(v.x * k, mag), Quot(v.y * k, mag)) ELSE v

\* |w - v| for two positions: computed on tenths of a pixel, returned in
\* milli-pixels.
Vector2_distanceTo(v, w) ==
    LET dx == Quot(w.x - v.x, 100)
        dy == Quot(w.y - v.y, 100)
    IN  100 * Isqrt(dx * dx + dy * dy)

Vector2_fromAngle(angle) == Vec(Cos(angle), Sin(angle))

(***************************************************************************)
(* Program constants (milli-units where the source has a real number)      *)
(***************************************************************************)
canvasWidth == 800000
canvasHeight == 800000
sunMass == 1000
sunRadius == 30000
G == 500
shipMass == 1000
shipRadius == 10000
thrustPower == 70
rotationSpeed == 50
startLives == 5
respawnDelay == 120
shootCooldownMax == 30
maxEnergy == 100000
maxHyperspaceCharges == 3
hyperspaceCooldownMax == 60
maxFuel == 1000000
thrustFuelCost == 1500
rotateFuelCost == 200
maxSpeed == 2250
shieldMinEnergy == 5000
shieldDrain == 500
energyRegen == 25
shieldExtraRadius == 8000
bulletSpeed == 4000
bulletRadius == 2000
bulletMass == 100
bulletLifetime == 200
asteroidSpawnDelay == 300
maxAsteroids == 3

\* The play circle: canvasHeight / 2 - 10.
playRadius == canvasHeight \div 2 - 10000

center == Vec(canvasWidth \div 2, canvasHeight \div 2)

(***************************************************************************)
(* Sun.js                                                                  *)
(***************************************************************************)
\* The force with no pull at the sun's radius either.
Sun_getGravitationalForce_softEdge(position, mass) ==
    LET dx == Quot(center.x - position.x, 100)
        dy == Quot(center.y - position.y, 100)
        distanceSquared == dx * dx + dy * dy
        distance == Isqrt(distanceSquared)
        forceMagnitude == Quot(Quot(G * sunMass * mass, 1000) * 100, distanceSquared)
    IN  IF distance * 100 <= sunRadius THEN Vec(0, 0)
        ELSE Vec(Quot(dx * forceMagnitude, distance), Quot(dy * forceMagnitude, distance))

\* The force on a body of mass `mass` at `position`: zero inside the sun's
\* radius, otherwise G*M*m/d^2 along the unit vector toward the sun.
Sun_getGravitationalForce(position, mass) ==
    LET dx == Quot(center.x - position.x, 100)
        dy == Quot(center.y - position.y, 100)
        distanceSquared == dx * dx + dy * dy
        distance == Isqrt(distanceSquared)
        forceMagnitude == Quot(Quot(G * sunMass * mass, 1000) * 100, distanceSquared)
    IN  IF distance * 100 < sunRadius THEN Vec(0, 0)
        ELSE Vec(Quot(dx * forceMagnitude, distance), Quot(dy * forceMagnitude, distance))

Sun_isColliding(position, objectRadius) ==
    Vector2_distanceTo(center, position) < sunRadius + objectRadius

(***************************************************************************)
(* Bullet.js                                                               *)
(***************************************************************************)
\* shoot() returning null
NoBullet == [ownerId |-> 0]

\* new Bullet(x, y, angle, shipVelocity, ownerId)
Bullet_new(x, y, angle, shipVelocity, ownerId) ==
    [position |-> Vec(x, y),
     velocity |-> Vec(shipVelocity.x + Quot(Cos(angle) * bulletSpeed, 1000),
                      shipVelocity.y + Quot(Sin(angle) * bulletSpeed, 1000)),
     active   |-> TRUE,
     ownerId  |-> ownerId,
     lifetime |-> bulletLifetime]

Bullet_applyForce(b, force) ==
    [b EXCEPT !.velocity = Vector2_add(b.velocity, Vec(Quot(force.x * 1000, bulletMass),
                                                       Quot(force.y * 1000, bulletMass)))]

Bullet_isOffScreen(b) == Vector2_distanceTo(center, b.position) > playRadius

\* update() without the lifetime test.
Bullet_update_noExpiry(b) ==
    IF ~b.active THEN b
    ELSE LET moved == [b EXCEPT !.position = Vector2_add(b.position, b.velocity),
                                !.lifetime = b.lifetime - 1]
         IN  [moved EXCEPT !.active = ~Bullet_isOffScreen(moved)]

Bullet_update(b) ==
    IF ~b.active THEN b
    ELSE LET moved == [b EXCEPT !.position = Vector2_add(b.position, b.velocity),
                                !.lifetime = b.lifetime - 1]
         IN  [moved EXCEPT !.active = ~(moved.lifetime <= 0 \/ Bullet_isOffScreen(moved))]

Bullet_checkCollision(b, position, radius) ==
    IF ~b.active THEN FALSE
    ELSE Vector2_distanceTo(b.position, position) < bulletRadius + radius

(***************************************************************************)
(* Ship.js                                                                 *)
(***************************************************************************)
\* new Ship(x, y, angle, id)
Ship_new(x, y, angle, id) ==
    [id |-> id,
     position |-> Vec(x, y),
     velocity |-> Vec(0, 0),
     angle |-> angle,
     lives |-> startLives,
     active |-> TRUE,
     respawnTimer |-> 0,
     startPosition |-> Vec(x, y),
     startAngle |-> angle,
     shootCooldown |-> 0,
     energy |-> maxEnergy,
     shieldActive |-> FALSE,
     hyperspaceCharges |-> maxHyperspaceCharges,
     hyperspaceCooldown |-> 0,
     fuel |-> maxFuel,
     fuelEnabled |-> FALSE]

\* thrust() without the speed cap.
Ship_thrust_unclamped(s) ==
    IF ~s.active THEN s
    ELSE IF s.fuelEnabled /\ s.fuel <= 0 THEN s
    ELSE LET fueled == IF s.fuelEnabled THEN [s EXCEPT !.fuel = s.fuel - thrustFuelCost] ELSE s
             thrustVector == Vector2_multiply(Vector2_fromAngle(s.angle), thrustPower)
         IN  [fueled EXCEPT !.velocity = Vector2_add(s.velocity, thrustVector)]

\* magnitude() > maxSpeed is decided on the squares, which are exact.
Ship_thrust(s) ==
    IF ~s.active THEN s
    ELSE IF s.fuelEnabled /\ s.fuel <= 0 THEN s
    ELSE LET fueled == IF s.fuelEnabled THEN [s EXCEPT !.fuel = s.fuel - thrustFuelCost] ELSE s
             thrustVector == Vector2_multiply(Vector2_fromAngle(s.angle), thrustPower)
             v == Vector2_add(s.velocity, thrustVector)
         IN  [fueled EXCEPT !.velocity =
                 IF v.x * v.x + v.y * v.y > maxSpeed * maxSpeed
                 THEN Vector2_normalizeTo(v, maxSpeed) ELSE v]

\* die() without the guard on the active flag.
Ship_die_unguarded(s) ==
    [s EXCEPT !.lives = s.lives - 1,
              !.active = FALSE,
              !.respawnTimer = respawnDelay,
              !.shieldActive = FALSE,
              !.energy = maxEnergy]

\* die() that also recharges the hyperspace drive.
Ship_die_recharging(s) ==
    IF ~s.active THEN s
    ELSE [s EXCEPT !.lives = s.lives - 1,
                   !.active = FALSE,
                   !.respawnTimer = respawnDelay,
                   !.shieldActive = FALSE,
                   !.energy = maxEnergy,
                   !.hyperspaceCharges = maxHyperspaceCharges]

Ship_die(s) ==
    IF ~s.active THEN s
    ELSE [s EXCEPT !.lives = s.lives - 1,
                   !.active = FALSE,
                   !.respawnTimer = respawnDelay,
                   !.shieldActive = FALSE,
                   !.energy = maxEnergy]

\* hyperspace() that does not look at the cooldown.
Ship_hyperspace_noCooldownGuard(s, malfunction, target) ==
    IF ~s.active \/ s.hyperspaceCharges <= 0 THEN s
    ELSE LET t == [s EXCEPT !.hyperspaceCharges = s.hyperspaceCharges - 1,
                            !.hyperspaceCooldown = hyperspaceCooldownMax]
         IN  IF malfunction THEN Ship_die(t)
             ELSE [t EXCEPT !.position = target, !.velocity = Vec(0, 0)]

\* hyperspace(): `malfunction` is the outcome of Math.random() < 0.15 and
\* `target` the drawn position (Math.random() * 800 on each axis).
Ship_hyperspace(s, malfunction, target) ==
    IF ~s.active \/ s.hyperspaceCooldown > 0 \/ s.hyperspaceCharges <= 0 THEN s
    ELSE LET t == [s EXCEPT !.hyperspaceCharges = s.hyperspaceCharges - 1,
                            !.hyperspaceCooldown = hyperspaceCooldownMax]
         IN  IF malfunction THEN Ship_die(t)
             ELSE [t EXCEPT !.position = target, !.velocity = Vec(0, 0)]

\* setShield() that raises the shield whenever there is any energy left.
Ship_setShield_noReserve(s, wanted) ==
    IF ~s.active THEN [s EXCEPT !.shieldActive = FALSE]
    ELSE [s EXCEPT !.shieldActive = (wanted /\ s.energy > 0)]

Ship_setShield(s, wanted) ==
    IF ~s.active THEN [s EXCEPT !.shieldActive = FALSE]
    ELSE [s EXCEPT !.shieldActive = (wanted /\ s.energy > shieldMinEnergy)]

Ship_rotate(s, direction) ==
    IF ~s.active THEN s
    ELSE IF s.fuelEnabled /\ s.fuel <= 0 THEN s
    ELSE LET fueled == IF s.fuelEnabled THEN [s EXCEPT !.fuel = s.fuel - rotateFuelCost] ELSE s
         IN  [fueled EXCEPT !.angle = s.angle + direction * rotationSpeed]

Ship_applyForce(s, force) ==
    [s EXCEPT !.velocity = Vector2_add(s.velocity, Vec(Quot(force.x * 1000, shipMass),
                                                       Quot(force.y * 1000, shipMass)))]

\* resetToStart() that also puts the ship back in play.
Ship_resetToStart_reviving(s) ==
    [s EXCEPT !.velocity = Vec(0, 0),
              !.angle = s.startAngle,
              !.position = s.startPosition,
              !.energy = maxEnergy,
              !.fuel = maxFuel,
              !.shieldActive = FALSE,
              !.hyperspaceCooldown = 0,
              !.hyperspaceCharges = maxHyperspaceCharges,
              !.active = TRUE]

Ship_resetToStart(s) ==
    [s EXCEPT !.velocity = Vec(0, 0),
              !.angle = s.startAngle,
              !.position = s.startPosition,
              !.energy = maxEnergy,
              !.fuel = maxFuel,
              !.shieldActive = FALSE,
              !.hyperspaceCooldown = 0,
              !.hyperspaceCharges = maxHyperspaceCharges]

\* respawn() without the guard on lives.
Ship_respawn_unguarded(s) ==
    [Ship_resetToStart(s) EXCEPT !.active = TRUE, !.respawnTimer = 0]

Ship_respawn(s) ==
    IF s.lives <= 0 THEN s
    ELSE [Ship_resetToStart(s) EXCEPT !.active = TRUE, !.respawnTimer = 0]

\* A wrapping that puts the body back on the side where it left.
WrapCircular_sameSide(position) ==
    LET dx == Quot(position.x - center.x, 100)
        dy == Quot(position.y - center.y, 100)
        distanceFromCenter == Isqrt(dx * dx + dy * dy)
        r == Quot(playRadius * 900, 1000)
    IN  IF distanceFromCenter * 100 > playRadius
        THEN Vec(center.x + Quot(dx * r, distanceFromCenter),
                 center.y + Quot(dy * r, distanceFromCenter))
        ELSE position

\* The circular wrapping of Ship.update and Asteroid.update: a position
\* farther than the play radius from the centre moves to the antipodal point
\* at 0.9 * play radius.  cos(atan2(dy, dx)) is dx / distance.
WrapCircular(position) ==
    LET dx == Quot(position.x - center.x, 100)
        dy == Quot(position.y - center.y, 100)
        distanceFromCenter == Isqrt(dx * dx + dy * dy)
        r == Quot(playRadius * 900, 1000)
    IN  IF distanceFromCenter * 100 > playRadius
        THEN Vec(center.x - Quot(dx * r, distanceFromCenter),
                 center.y - Quot(dy * r, distanceFromCenter))
        ELSE position

\* update() whose drain does not stop at zero energy.
Ship_update_noCutoff(s) ==
    LET c == [s EXCEPT !.shootCooldown = IF s.shootCooldown > 0 THEN s.shootCooldown - 1
                                         ELSE s.shootCooldown,
                       !.hyperspaceCooldown = IF s.hyperspaceCooldown > 0
                                              THEN s.hyperspaceCooldown - 1
                                              ELSE s.hyperspaceCooldown]
        e == IF c.shieldActive
             THEN [c EXCEPT !.energy = c.energy - shieldDrain]
             ELSE IF c.energy < maxEnergy
                  THEN [c EXCEPT !.energy = c.energy + energyRegen]
                  ELSE c
    IN  IF ~e.active
        THEN LET t == [e EXCEPT !.respawnTimer = e.respawnTimer - 1]
             IN  IF t.respawnTimer <= 0 THEN Ship_respawn(t) ELSE t
        ELSE [e EXCEPT !.position = WrapCircular(Vector2_add(e.position, e.velocity))]

Ship_update(s) ==
    LET c == [s EXCEPT !.shootCooldown = IF s.shootCooldown > 0 THEN s.shootCooldown - 1
                                         ELSE s.shootCooldown,
                       !.hyperspaceCooldown = IF s.hyperspaceCooldown > 0
                                              THEN s.hyperspaceCooldown - 1
                                              ELSE s.hyperspaceCooldown]
        e == IF c.shieldActive
             THEN IF c.energy - shieldDrain <= 0
                  THEN [c EXCEPT !.energy = 0, !.shieldActive = FALSE]
                  ELSE [c EXCEPT !.energy = c.energy - shieldDrain]
             ELSE IF c.energy < maxEnergy
                  THEN [c EXCEPT !.energy = c.energy + energyRegen]
                  ELSE c
    IN  IF ~e.active
        THEN LET t == [e EXCEPT !.respawnTimer = e.respawnTimer - 1]
             IN  IF t.respawnTimer <= 0 THEN Ship_respawn(t) ELSE t
        ELSE [e EXCEPT !.position = WrapCircular(Vector2_add(e.position, e.velocity))]

\* shoot() that does not look at the cooldown.
Ship_shoot_noCooldown(s) ==
    IF ~s.active THEN [ship |-> s, bullet |-> NoBullet]
    ELSE [ship   |-> [s EXCEPT !.shootCooldown = shootCooldownMax],
          bullet |-> Bullet_new(s.position.x + Quot(Cos(s.angle) * shipRadius, 1000),
                                s.position.y + Quot(Sin(s.angle) * shipRadius, 1000),
                                s.angle, s.velocity, s.id)]

\* shoot(): the ship after the call and the bullet returned (NoBullet for null).
Ship_shoot(s) ==
    IF s.shootCooldown > 0 \/ ~s.active THEN [ship |-> s, bullet |-> NoBullet]
    ELSE [ship   |-> [s EXCEPT !.shootCooldown = shootCooldownMax],
          bullet |-> Bullet_new(s.position.x + Quot(Cos(s.angle) * shipRadius, 1000),
                                s.position.y + Quot(Sin(s.angle) * shipRadius, 1000),
                                s.angle, s.velocity, s.id)]

Ship_addFuel(s, amount) ==
    IF ~s.active THEN s
    ELSE [s EXCEPT !.fuel = IF s.fuel + amount > maxFuel THEN maxFuel ELSE s.fuel + amount]

(***************************************************************************)
(* Asteroid.js                                                             *)
(***************************************************************************)
\* new Asteroid(x, y, radius, velocity); the drawn shape is left out.
Asteroid_new(x, y, radius, velocity) ==
    [position |-> Vec(x, y), radius |-> radius, velocity |-> velocity]

Asteroid_update(a) ==
    [a EXCEPT !.position = WrapCircular(Vector2_add(a.position, a.velocity))]

(***************************************************************************)
(* Game.js: the state of the game                                          *)
(***************************************************************************)
VARIABLES
    state,              \* 'menu', 'playing', 'gameOver'
    gameMode,           \* null, 'pvp', 'ai'
    aiDifficulty,       \* 'easy', 'medium', 'hard'
    ai,                 \* the AI object of ship 2 (NoAI: null)
    hazardsEnabled,
    ship1,
    ship2,
    bullets,            \* the bullets array, in array order
    asteroids,          \* the asteroids array, in array order
    asteroidSpawnTimer,
    keys,               \* the command each player's pressed keys stand for
    pc,                 \* where gameLoop stands: "loop" between two frames,
                        \* otherwise the next block of Game.update / render
    i,                  \* the index of the bullet loop of Game.update
    frame,              \* Game.update calls since startGame
    jumps,              \* accepted hyperspace() calls since startGame
    tickLives,          \* <<ship1.lives, ship2.lives>> when this update began
    dieCalls,           \* die() calls on <<ship1, ship2>> during this update
    op,                 \* the Ship method last called directly on ship1
    ret,                \* what that call returned (NoBullet: null or nothing)
    calls               \* the number of such calls, per kind

vars == <<state, gameMode, aiDifficulty, ai, hazardsEnabled, ship1, ship2, bullets,
          asteroids, asteroidSpawnTimer, keys, pc, i, frame, jumps, tickLives, dieCalls,
          op, ret, calls>>

\* The variables of Game, and those of the direct calls.
gameVars == <<state, gameMode, aiDifficulty, ai, hazardsEnabled, ship2, bullets, asteroids,
              asteroidSpawnTimer, keys, pc, i, frame, jumps, tickLives, dieCalls>>

callVars == <<op, ret, calls>>

aiVars == <<aiDifficulty, ai>>

(***************************************************************************)
(* The command record of the input source: six booleans per player.        *)
(***************************************************************************)
Command(rl, rr, th, sh, hy, sd) ==
    [rotateLeft |-> rl, rotateRight |-> rr, thrust |-> th,
     shoot |-> sh, hyperspace |-> hy, shield |-> sd]

Idle == Command(FALSE, FALSE, FALSE, FALSE, FALSE, FALSE)
Thrust == Command(FALSE, FALSE, TRUE, FALSE, FALSE, FALSE)
Shoot == Command(FALSE, FALSE, FALSE, TRUE, FALSE, FALSE)
Shield == Command(FALSE, FALSE, FALSE, FALSE, FALSE, TRUE)
ShootShield == Command(FALSE, FALSE, FALSE, TRUE, FALSE, TRUE)
Jump == Command(FALSE, FALSE, FALSE, FALSE, TRUE, FALSE)
JumpShield == Command(FALSE, FALSE, FALSE, FALSE, TRUE, TRUE)
JumpShoot == Command(FALSE, FALSE, FALSE, TRUE, TRUE, FALSE)
TurnThrust == Command(FALSE, TRUE, TRUE, FALSE, FALSE, FALSE)
ThrustShield == Command(FALSE, FALSE, TRUE, FALSE, FALSE, TRUE)
Turn == Command(FALSE, TRUE, FALSE, FALSE, FALSE, FALSE)

(***************************************************************************)
(* Bounds of the exploration                                               *)
(***************************************************************************)
\* Game.update calls explored per match, and accepted hyperspace() calls per
\* match (the players release the hyperspace key after that many): in the
\* short matches with many commands, and in the long matches with few.
MaxFrames == 124
MaxJumps == 2
MaxFramesLong == 1600
MaxJumpsLong == 5
MaxFramesHazards == 350
MaxJumpsHazards == 1
MaxFramesEndgame == 700
MaxJumpsEndgame == 10
MaxFramesFlight == 303
MaxJumpsFlight == 2
MaxFramesDuel == 200
MaxJumpsDuel == 1
MaxFramesSkirmish == 13
MaxJumpsSkirmish == 1
MaxFramesBarrage == 260
MaxJumpsBarrage == 2
MaxWinding == 2

\* The commands a player may hold.
CommandSet == {Idle, Thrust, Shoot, Shield, ShootShield, Jump, JumpShield, JumpShoot,
               TurnThrust}

\* Positions drawn by hyperspace(): beside ship 1's start, on ship 1's start,
\* inside the sun, and outside the play circle (a corner of the canvas).
HyperTargets == {Vec(628000, 400000), Vec(650000, 400000), Vec(400000, 400000),
                 Vec(790000, 790000)}

\* The frames before which a key event is delivered.
KeyEventFrames == {0}

\* Key events delivered before the first frame only, each leaving the players
\* with one of the key pairs ks.
AtStart(ks) == [f \in KeyEventFrames |-> ks]

\* What a match explores: its length, the hyperspace calls, the key events
\* (before which frame, and the keys the two players hold after it), and the
\* outcomes of the Math.random() draws of hyperspace and of spawnAsteroid.
Short == [maxFrames |-> MaxFrames, maxJumps |-> MaxJumps,
          keys |-> AtStart(CommandSet \X CommandSet),
          malfunction |-> BOOLEAN, targets |-> HyperTargets, draws |-> {}]

Long == [maxFrames |-> MaxFramesLong, maxJumps |-> MaxJumpsLong,
         keys |-> AtStart({<<Idle, Idle>>, <<Shoot, Jump>>, <<Thrust, Shield>>}),
         malfunction |-> {TRUE}, targets |-> HyperTargets, draws |-> {}]

\* The draws of spawnAsteroid: the angle of the spawn point, the offset of the
\* aim from the centre, the speed (1 + Math.random()) and the radius
\* (10 + Math.random() * 15).
AsteroidDraws ==
    {[angle |-> a, aim |-> Vec(0, 0), speed |-> 1900, radius |-> r] :
        a \in {0, PiM}, r \in {12000, 24000}}

Hazards == [maxFrames |-> MaxFramesHazards, maxJumps |-> MaxJumpsHazards,
            keys |-> AtStart({<<Idle, Idle>>, <<Shield, Idle>>, <<Idle, Shield>>,
                              <<Shoot, Shield>>, <<ShootShield, Shoot>>,
                              <<ThrustShield, Idle>>, <<Idle, ThrustShield>>,
                              <<Idle, JumpShield>>}),
            malfunction |-> {FALSE}, targets |-> {Vec(650000, 400000)},
            draws |-> AsteroidDraws]

\* A scripted flight with hazards on: ship 2 jumps to a rim of the circle;
\* ship 1 waits, turns, thrusts, turns again, fires one shot before tick
\* FlightShot and jumps to a rim. The asteroid that spawns FlightTime ticks
\* later does so where the shot is then.
FlightShot == 101

FlightScript ==
    (0 :> {<<Idle, Jump>>}) @@ (1 :> {<<Idle, Idle>>}) @@
    (25 :> {<<Turn, Idle>>}) @@ (33 :> {<<Thrust, Idle>>}) @@
    (44 :> {<<Turn, Idle>>}) @@ (FlightShot :> {<<Shoot, Idle>>}) @@
    (FlightShot + 1 :> {<<Jump, Idle>>}) @@ (FlightShot + 2 :> {<<Idle, Idle>>})

FlightDraws ==
    {[angle |-> 6158, aim |-> Vec(0, 0), speed |-> 1900, radius |-> r] :
        r \in {12000, 24000}}

Flight == [maxFrames |-> MaxFramesFlight, maxJumps |-> MaxJumpsFlight,
           keys |-> FlightScript,
           malfunction |-> {FALSE},
           targets |-> {Vec(20000, 400000), Vec(780000, 400000)},
           draws |-> FlightDraws]

\* Matches played to the end: each player either keeps jumping with a drive
\* that fails, or lets the ship fall.
Endgame == [maxFrames |-> MaxFramesEndgame, maxJumps |-> MaxJumpsEndgame,
            keys |-> AtStart({<<Jump, Jump>>, <<Shoot, Jump>>, <<Jump, Idle>>}),
            malfunction |-> {TRUE}, targets |-> HyperTargets, draws |-> {}]

\* A barrage from the rim: both ships jump at the start (to the right rim or
\* to the top rim), ship 1 turns a little off the sun and then holds the
\* trigger, so that its shots cross the arena past the sun; ship 2 holds its
\* shield up throughout.
BarrageShot == 5

Barrage == [maxFrames |-> MaxFramesBarrage, maxJumps |-> MaxJumpsBarrage,
            keys |-> (0 :> {<<Jump, JumpShield>>}) @@ (1 :> {<<Turn, Shield>>}) @@
                     (BarrageShot :> {<<Shoot, Shield>>}),
            malfunction |-> {FALSE},
            targets |-> {Vec(780000, 400000), Vec(400000, 20000)},
            draws |-> {}]

(***************************************************************************)
(* AI.js: the controller of ship 2 in an 'ai' match                        *)
(***************************************************************************)
safeDistanceFromSun == 250000
criticalDistanceFromSun == 200000
emergencyDistanceFromSun == 50000
shieldDistance == 200000
shieldAngle == 200
optimalDistance == 300000
predictionFrames == 20
rotateThreshold == 50
movingThreshold == 300

\* atan z for 0 <= z <= 1 (thousandths in, milliradians out):
\* z * pi/4 + 0.273 * z * (1 - z), within 4 milliradians of the arc tangent.
AtanQ(z) == (z * 785) \div 1000 + (273 * z * (1000 - z)) \div 1000000

\* Math.atan2(y, x) in milliradians, in -pi .. pi; the arguments are reduced
\* to tenths of a pixel.
Atan2(y, x) ==
    LET ax == Abs(Quot(x, 100))
        ay == Abs(Quot(y, 100))
        r == IF ax = 0 /\ ay = 0 THEN 0
             ELSE IF ay <= ax THEN AtanQ((ay * 1000) \div ax)
             ELSE HalfPiM - AtanQ((ax * 1000) \div ay)
        h == IF x >= 0 THEN r ELSE PiM - r
    IN  IF y >= 0 THEN h ELSE -h

\* The tuning of setDifficulty(level).
AI_setDifficulty(level) ==
    CASE level = "easy" ->
             [aimAccuracy |-> 700, updateInterval |-> 12,
              shootProbability |-> 250, shootAngleThreshold |-> 300]
      [] level = "medium" ->
             [aimAccuracy |-> 850, updateInterval |-> 8,
              shootProbability |-> 500, shootAngleThreshold |-> 500]
      [] level = "hard" ->
             [aimAccuracy |-> 980, updateInterval |-> 4,
              shootProbability |-> 800, shootAngleThreshold |-> 800]

\* this.ai = null
NoAI == [frameCounter |-> -1]

\* new AI(ship2, ship1, sun) followed by setDifficulty(level). The fields
\* command (what update() returned last) and branch (what the last
\* makeDecisions took) are history, read by no code.
AI_new(level) ==
    LET d == AI_setDifficulty(level)
    IN  [frameCounter |-> 0, targetAngle |-> 0, shouldThrust |-> FALSE,
         shouldShoot |-> FALSE, shouldShield |-> FALSE, shouldHyperspace |-> FALSE,
         aimAccuracy |-> d.aimAccuracy, updateInterval |-> d.updateInterval,
         shootProbability |-> d.shootProbability,
         shootAngleThreshold |-> d.shootAngleThreshold,
         command |-> Idle, branch |-> "none"]

\* getAngleDifference(angle1, angle2): angle2 - angle1 wrapped into -pi .. pi.
RECURSIVE AI_wrap(_)
AI_wrap(diff) ==
    IF diff > PiM THEN AI_wrap(diff - TwoPiM)
    ELSE IF diff < -PiM THEN AI_wrap(diff + TwoPiM)
    ELSE diff

AI_getAngleDifference(angle1, angle2) == AI_wrap(angle2 - angle1)

\* The angle from position p to position q.
AI_angleTo(p, q) == Atan2(q.y - p.y, q.x - p.x)

\* predictEnemyPosition()
AI_predictEnemyPosition(enemy) ==
    Vector2_add(enemy.position,
                Vec(enemy.velocity.x * predictionFrames, enemy.velocity.y * predictionFrames))

\* avoidSun() heading for the sun.
AI_avoidSun_towardsSun(a, ship) ==
    [a EXCEPT !.targetAngle = AI_angleTo(ship.position, center),
              !.shouldThrust = TRUE]

\* avoidSun()
AI_avoidSun(a, ship) ==
    [a EXCEPT !.targetAngle = AI_angleTo(ship.position, center) + PiM,
              !.shouldThrust = TRUE]

\* defensiveBehavior(distanceToSun, distanceToEnemy)
AI_defensiveBehavior(a, ship, enemy, distanceToSun, distanceToEnemy) ==
    LET lowered == [a EXCEPT !.shouldShield = FALSE, !.shouldHyperspace = FALSE]
        angleToUs == AI_angleTo(enemy.position, ship.position)
    IN  IF distanceToSun < emergencyDistanceFromSun
        THEN [lowered EXCEPT !.shouldHyperspace = TRUE]
        ELSE IF /\ distanceToEnemy < shieldDistance
                /\ Abs(AI_getAngleDifference(enemy.angle, angleToUs)) < shieldAngle
             THEN [lowered EXCEPT !.shouldShield = TRUE]
        ELSE lowered

\* combatBehavior(), with the three Math.random() draws r (thousandths).
AI_combatBehavior(a, ship, enemy, r) ==
    LET distanceToEnemy == Vector2_distanceTo(ship.position, enemy.position)
        angleToTarget == AI_angleTo(ship.position, AI_predictEnemyPosition(enemy))
        aimError == Quot(Quot((1000 - a.aimAccuracy) * (r.aim - 500), 1000) * HalfPiM, 1000)
        angleDiff == AI_getAngleDifference(ship.angle, angleToTarget)
    IN  [a EXCEPT !.targetAngle = angleToTarget + aimError,
                  !.shouldThrust =
                      IF distanceToEnemy > optimalDistance THEN r.thrust > 300
                      ELSE IF distanceToEnemy < shieldDistance
                           THEN Abs(angleDiff) > HalfPiM
                      ELSE r.thrust > 500,
                  !.shouldShoot = /\ Abs(angleDiff) < a.shootAngleThreshold
                                  /\ r.shoot < a.shootProbability]

\* The dot product of the unit vectors of the ship's velocity and of the
\* direction to the sun exceeds 0.3.
AI_movingTowardsSun(ship) ==
    LET toSun == Vector2_subtract(center, ship.position)
        directionToSun == Vector2_normalizeTo(Vec(Quot(toSun.x, 100), Quot(toSun.y, 100)), 1000)
        velocityNormalized == Vector2_normalizeTo(ship.velocity, 1000)
    IN  Quot(directionToSun.x * velocityNormalized.x
                 + directionToSun.y * velocityNormalized.y, 1000) > movingThreshold

\* makeDecisions() in which the first behaviour that applies is the only one
\* to run: a raised shield ends the evaluation before combatBehavior().
AI_makeDecisions_exclusive(a, ship, enemy, r) ==
    LET distanceToSun == Vector2_distanceTo(ship.position, center)
        distanceToEnemy == Vector2_distanceTo(ship.position, enemy.position)
        defended == AI_defensiveBehavior(a, ship, enemy, distanceToSun, distanceToEnemy)
    IN  IF \/ distanceToSun < safeDistanceFromSun
           \/ distanceToSun < criticalDistanceFromSun /\ AI_movingTowardsSun(ship)
        THEN [AI_avoidSun(a, ship) EXCEPT !.shouldShoot = FALSE, !.branch = "avoidSun"]
        ELSE IF defended.shouldShield \/ defended.shouldHyperspace
             THEN [defended EXCEPT !.branch = "combat"]
        ELSE [AI_combatBehavior(defended, ship, enemy, r) EXCEPT !.branch = "combat"]

\* makeDecisions()
AI_makeDecisions(a, ship, enemy, r) ==
    LET distanceToSun == Vector2_distanceTo(ship.position, center)
        distanceToEnemy == Vector2_distanceTo(ship.position, enemy.position)
    IN  IF \/ distanceToSun < safeDistanceFromSun
           \/ distanceToSun < criticalDistanceFromSun /\ AI_movingTowardsSun(ship)
        THEN [AI_avoidSun(a, ship) EXCEPT !.shouldShoot = FALSE, !.branch = "avoidSun"]
        ELSE [AI_combatBehavior(
                  AI_defensiveBehavior(a, ship, enemy, distanceToSun, distanceToEnemy),
                  ship, enemy, r)
              EXCEPT !.branch = "combat"]

\* executeActions() without the dead zone.
AI_executeActions_noDeadZone(a, ship) ==
    LET angleDiff == AI_getAngleDifference(ship.angle, a.targetAngle)
    IN  Command(angleDiff < 0, angleDiff > 0,
                a.shouldThrust, a.shouldShoot, a.shouldHyperspace, a.shouldShield)

\* executeActions()
AI_executeActions(a, ship) ==
    LET angleDiff == AI_getAngleDifference(ship.angle, a.targetAngle)
    IN  Command(angleDiff < -rotateThreshold, angleDiff > rotateThreshold,
                a.shouldThrust, a.shouldShoot, a.shouldHyperspace, a.shouldShield)

\* update() that calls makeDecisions() on every call.
AI_update_everyCall(a, ship, enemy, r) ==
    IF ~ship.active \/ ~enemy.active THEN [a EXCEPT !.command = Idle]
    ELSE LET decided == AI_makeDecisions([a EXCEPT !.frameCounter = a.frameCounter + 1],
                                         ship, enemy, r)
         IN  [decided EXCEPT !.command = AI_executeActions(decided, ship)]

\* update() that counts the frame before it looks at the ships.
AI_update_countsInactive(a, ship, enemy, r) ==
    LET counted == [a EXCEPT !.frameCounter = a.frameCounter + 1]
        decided == IF counted.frameCounter % counted.updateInterval = 0
                   THEN AI_makeDecisions(counted, ship, enemy, r)
                   ELSE counted
    IN  IF ~ship.active \/ ~enemy.active THEN [counted EXCEPT !.command = Idle]
        ELSE [decided EXCEPT !.command = AI_executeActions(decided, ship)]

\* update(): the AI object after the call; its field command is the command
\* returned.
AI_update(a, ship, enemy, r) ==
    IF ~ship.active \/ ~enemy.active THEN [a EXCEPT !.command = Idle]
    ELSE LET counted == [a EXCEPT !.frameCounter = a.frameCounter + 1]
             decided == IF counted.frameCounter % counted.updateInterval = 0
                        THEN AI_makeDecisions(counted, ship, enemy, r)
                        ELSE counted
         IN  [decided EXCEPT !.command = AI_executeActions(decided, ship)]

\* The Math.random() draws of one combatBehavior() call.
NoDraw == [aim |-> 500, thrust |-> 0, shoot |-> 1000]

\* Explored: the draws with which the AI approaches, and fires once aimed.
AIDraws == {[aim |-> 400, thrust |-> 900, shoot |-> 100]}

\* A match against the AI: player 1 may thrust or fire from the start, and
\* before frame DuelJump presses hyperspace, with a drive that fails.
DuelJump == 15

Duel == [maxFrames |-> MaxFramesDuel, maxJumps |-> MaxJumpsDuel,
         keys |-> (0 :> {<<Thrust, Idle>>, <<Shoot, Idle>>}) @@
                  (DuelJump :> {<<Jump, Idle>>}),
         malfunction |-> {TRUE}, targets |-> {Vec(650000, 400000)}, draws |-> {},
         random |-> AIDraws]

(***************************************************************************)
(* Game constructor                                                        *)
(***************************************************************************)
\* new Ship(centerX + 250, centerY, Math.PI, 1) and
\* new Ship(centerX - 250, centerY, 0, 2)
Ship1 == Ship_new(canvasWidth \div 2 + 250000, canvasHeight \div 2, PiM, 1)

Ship2 == Ship_new(canvasWidth \div 2 - 250000, canvasHeight \div 2, 0, 2)

\* The game as constructed, with ship 1 in state s1.
Game_new(s1) ==
    /\ state = "menu"
    /\ gameMode = "null"
    /\ aiDifficulty = "easy"
    /\ ai = NoAI
    /\ hazardsEnabled = FALSE
    /\ ship1 = s1
    /\ ship2 = Ship2
    /\ bullets = <<>>
    /\ asteroids = <<>>
    /\ asteroidSpawnTimer = 0
    /\ keys = <<Idle, Idle>>
    /\ pc = "loop"
    /\ i = 0
    /\ frame = 0
    /\ jumps = 0
    /\ tickLives = <<startLives, startLives>>
    /\ dieCalls = <<0, 0>>
    /\ op = "new"
    /\ ret = NoBullet
    /\ calls = [thrust |-> 0, applyForce |-> 0, other |-> 0]

Init == Game_new(Ship1)

\* array.splice(k, 1)
Splice(seq, k) == SubSeq(seq, 1, k - 1) \o SubSeq(seq, k + 1, Len(seq))

(***************************************************************************)
(* Game.startGame and the menu                                             *)
(***************************************************************************)
Game_startShip(s) ==
    [s EXCEPT !.lives = startLives,
              !.position = s.startPosition,
              !.velocity = Vec(0, 0),
              !.angle = s.startAngle,
              !.active = TRUE,
              !.respawnTimer = 0,
              !.fuelEnabled = FALSE]

\* handleMenuInput with key 2 down: startGame('pvp')
Game_startGame(mode) ==
    /\ pc = "loop" /\ state = "menu"
    /\ gameMode' = mode
    /\ state' = "playing"
    /\ ship1' = Game_startShip(ship1)
    /\ ship2' = Game_startShip(ship2)
    /\ bullets' = <<>>
    /\ asteroids' = <<>>
    /\ asteroidSpawnTimer' = 0
    /\ frame' = 0
    /\ jumps' = 0
    /\ tickLives' = <<startLives, startLives>>
    /\ dieCalls' = <<0, 0>>
    /\ ai' = IF mode = "ai" THEN AI_new(aiDifficulty) ELSE NoAI
    /\ UNCHANGED <<aiDifficulty, hazardsEnabled, keys, pc, i, callVars>>

StartGame == Game_startGame("pvp")

\* handleMenuInput with key 1 down: startGame('ai')
StartGameAI == Game_startGame("ai")

\* handleMenuInput with key 3 down: cycleDifficulty()
CycleDifficulty ==
    /\ pc = "loop" /\ state = "menu"
    /\ aiDifficulty' = CASE aiDifficulty = "easy" -> "medium"
                          [] aiDifficulty = "medium" -> "hard"
                          [] OTHER -> "easy"
    /\ UNCHANGED <<state, gameMode, ai, hazardsEnabled, ship1, ship2, bullets, asteroids,
                   asteroidSpawnTimer, keys, pc, i, frame, jumps, tickLives, dieCalls,
                   callVars>>

\* handleMenuInput with key 4 down: hazards on.
ToggleHazards ==
    /\ pc = "loop" /\ state = "menu" /\ ~hazardsEnabled
    /\ hazardsEnabled' = TRUE
    /\ UNCHANGED <<state, gameMode, ship1, ship2, bullets, asteroids, asteroidSpawnTimer,
                   keys, pc, i, frame, jumps, tickLives, dieCalls, callVars, aiVars>>

\* handleMenuInput(): what the menu does when the named key is down.
Game_handleMenuInput(key) ==
    CASE key = "1" -> StartGameAI
      [] key = "2" -> StartGame
      [] key = "3" -> CycleDifficulty
      [] key = "4" -> ToggleHazards

\* Input.onKeyDown / onKeyUp between two frames.
KeyEvent(B) ==
    /\ pc = "loop" /\ state = "playing" /\ frame \in DOMAIN B.keys
    /\ \E k \in B.keys[frame] :
          /\ k # keys
          /\ keys' = k
    /\ UNCHANGED <<state, gameMode, hazardsEnabled, ship1, ship2, bullets, asteroids,
                   asteroidSpawnTimer, pc, i, frame, jumps, tickLives, dieCalls, callVars, aiVars>>

(***************************************************************************)
(* Game.update, block by block                                             *)
(***************************************************************************)
\* getShip1Input / getShip2Input
Input_getShipInput(B, p) ==
    [keys[p] EXCEPT !.hyperspace = keys[p].hyperspace /\ jumps < B.maxJumps]

\* hyperspace() is accepted (it consumes a charge).
HyperspaceAccepted(s, input) ==
    input.hyperspace /\ s.active /\ s.hyperspaceCooldown = 0 /\ s.hyperspaceCharges > 0

\* The state of a ship before the commands that precede hyperspace.
Game_steer(s, input) ==
    LET a == IF input.rotateLeft THEN Ship_rotate(s, -1) ELSE s
        b == IF input.rotateRight THEN Ship_rotate(a, 1) ELSE a
    IN  IF input.thrust THEN Ship_thrust(Ship_thrust(b)) ELSE b

\* rotate, thrust, hyperspace and setShield of one ship, as its command says.
Game_applyCommand(s, input, malfunction, target) ==
    LET c == Game_steer(s, input)
        d == IF input.hyperspace THEN Ship_hyperspace(c, malfunction, target) ELSE c
    IN  Ship_setShield(d, input.shield)

\* if (input.shoot) { bullet = ship.shoot(); if (bullet) bullets.push(bullet) }
Game_fire(s, input) ==
    IF input.shoot THEN Ship_shoot(s) ELSE [ship |-> s, bullet |-> NoBullet]

\* bullets.push(bullet); the bullet is stamped with the tick t that fired it
\* (firedAt is a history field, read by no code).
Push(seq, b, t) ==
    IF b = NoBullet THEN seq
    ELSE Append(seq, [f \in DOMAIN b \cup {"firedAt"} |->
                         IF f = "firedAt" THEN t ELSE b[f]])

HandleInput(B) ==
    /\ pc = "loop" /\ state = "playing" /\ frame < B.maxFrames
    /\ \E r \in IF gameMode = "ai" THEN B.random ELSE {NoDraw} :
       \E input1 \in {Input_getShipInput(B, 1)},
          thought \in {IF gameMode = "ai" THEN AI_update(ai, ship2, ship1, r) ELSE ai} :
       \E input2 \in {IF gameMode = "ai" THEN thought.command
                      ELSE Input_getShipInput(B, 2)} :
       \E acc1 \in {HyperspaceAccepted(Game_steer(ship1, input1), input1)},
          acc2 \in {HyperspaceAccepted(Game_steer(ship2, input2), input2)} :
       \E m1 \in IF acc1 THEN B.malfunction ELSE {FALSE},
          t1 \in IF acc1 THEN B.targets ELSE {Vec(0, 0)},
          m2 \in IF acc2 THEN B.malfunction ELSE {FALSE},
          t2 \in IF acc2 THEN B.targets ELSE {Vec(0, 0)} :
       \E f1 \in {Game_fire(Game_applyCommand(ship1, input1, m1, t1), input1)},
          f2 \in {Game_fire(Game_applyCommand(ship2, input2, m2, t2), input2)} :
          /\ ship1' = f1.ship
          /\ ship2' = f2.ship
          /\ bullets' = Push(Push(bullets, f1.bullet, frame), f2.bullet, frame)
          /\ jumps' = jumps + (IF acc1 THEN 1 ELSE 0) + (IF acc2 THEN 1 ELSE 0)
          /\ dieCalls' = <<IF acc1 /\ m1 THEN 1 ELSE 0, IF acc2 /\ m2 THEN 1 ELSE 0>>
          /\ ai' = thought
    /\ tickLives' = <<ship1.lives, ship2.lives>>
    /\ pc' = "gravity"
    /\ UNCHANGED <<state, gameMode, aiDifficulty, hazardsEnabled, asteroids,
                   asteroidSpawnTimer, keys, i, frame, callVars>>

ApplyGravity ==
    /\ pc = "gravity"
    /\ ship1' = Ship_applyForce(ship1, Sun_getGravitationalForce(ship1.position, shipMass))
    /\ ship2' = Ship_applyForce(ship2, Sun_getGravitationalForce(ship2.position, shipMass))
    /\ i' = Len(bullets)
    /\ pc' = IF Len(bullets) = 0 THEN "ships" ELSE "bullets"
    /\ UNCHANGED <<state, gameMode, hazardsEnabled, bullets, asteroids, asteroidSpawnTimer,
                   keys, frame, jumps, tickLives, dieCalls, callVars, aiVars>>

\* Gravity and update of the bullet of one loop iteration.
Game_moveBullet(b) ==
    Bullet_update(Bullet_applyForce(b, Sun_getGravitationalForce(b.position, bulletMass)))

\* The collision test without the test of the owner.
Game_hits_anyOwner(b, s) ==
    Bullet_checkCollision(b, s.position,
                          shipRadius + IF s.shieldActive THEN shieldExtraRadius ELSE 0)

\* bullet.checkCollision(ship.position, ship.radius + (ship.shieldActive ? 8 : 0))
\* for a bullet of another owner.
Game_hits(b, s) ==
    /\ b.ownerId # s.id
    /\ Bullet_checkCollision(b, s.position,
                             shipRadius + IF s.shieldActive THEN shieldExtraRadius ELSE 0)

\* The iteration of the bullet loop in which a hit kills whatever the shield.
Game_bulletIteration_noShield(bs, k, s1, s2) ==
    LET Res(b, a1, a2, brk, d) ==
            [bullets |-> b, ship1 |-> a1, ship2 |-> a2, break |-> brk, died |-> d]
        u == Bullet_update(Bullet_applyForce(bs[k],
                               Sun_getGravitationalForce(bs[k].position, bulletMass)))
        Hit(s) == u.ownerId # s.id /\ Bullet_checkCollision(u, s.position, shipRadius)
    IN  IF ~bs[k].active \/ Sun_isColliding(u.position, bulletRadius)
        THEN Res(Splice(bs, k), s1, s2, FALSE, <<0, 0>>)
        ELSE IF Hit(s1) THEN Res(<<>>, Ship_die(s1), Ship_resetToStart(s2), TRUE, <<1, 0>>)
        ELSE IF Hit(s2) THEN Res(<<>>, Ship_resetToStart(s1), Ship_die(s2), TRUE, <<0, 1>>)
        ELSE Res([bs EXCEPT ![k] = u], s1, s2, FALSE, <<0, 0>>)

\* One iteration of the bullet loop, for the bullet at index k: the arrays and
\* ships after it, whether the loop breaks, and the die() calls made.
Game_bulletIteration(bs, k, s1, s2) ==
    LET Res(b, a1, a2, brk, d) ==
            [bullets |-> b, ship1 |-> a1, ship2 |-> a2, break |-> brk, died |-> d]
        u == Game_moveBullet(bs[k])
    IN  IF ~bs[k].active THEN Res(Splice(bs, k), s1, s2, FALSE, <<0, 0>>)
        ELSE IF Sun_isColliding(u.position, bulletRadius)
             THEN Res(Splice(bs, k), s1, s2, FALSE, <<0, 0>>)
        ELSE IF Game_hits(u, s1)
             THEN IF s1.shieldActive
                  THEN Res(Splice(bs, k), s1, s2, FALSE, <<0, 0>>)
                  ELSE Res(<<>>, Ship_die(s1), Ship_resetToStart(s2), TRUE, <<1, 0>>)
        ELSE IF Game_hits(u, s2)
             THEN IF s2.shieldActive
                  THEN Res(Splice(bs, k), s1, s2, FALSE, <<0, 0>>)
                  ELSE Res(<<>>, Ship_resetToStart(s1), Ship_die(s2), TRUE, <<0, 1>>)
        ELSE Res([bs EXCEPT ![k] = u], s1, s2, FALSE, <<0, 0>>)

BulletStep ==
    /\ pc = "bullets"
    /\ LET r == Game_bulletIteration(bullets, i, ship1, ship2)
       IN  /\ bullets' = r.bullets
           /\ ship1' = r.ship1
           /\ ship2' = r.ship2
           /\ dieCalls' = <<dieCalls[1] + r.died[1], dieCalls[2] + r.died[2]>>
           /\ i' = IF r.break THEN 0 ELSE i - 1
           /\ pc' = IF r.break \/ i = 1 THEN "ships" ELSE "bullets"
    /\ UNCHANGED <<state, gameMode, hazardsEnabled, asteroids, asteroidSpawnTimer, keys,
                   frame, jumps, tickLives, callVars, aiVars>>

UpdateShips ==
    /\ pc = "ships"
    /\ ship1' = Ship_update(ship1)
    /\ ship2' = Ship_update(ship2)
    /\ pc' = "sun"
    /\ UNCHANGED <<state, gameMode, hazardsEnabled, bullets, asteroids, asteroidSpawnTimer,
                   keys, i, frame, jumps, tickLives, dieCalls, callVars, aiVars>>

\* The ships, the bullets and the asteroids, and the die() calls made on each
\* ship by the block at hand.
World == [ship1 |-> ship1, ship2 |-> ship2, bullets |-> bullets, asteroids |-> asteroids,
          died |-> <<0, 0>>]

\* The sun check that spares a shielded ship.
Game_sunCollision_shielded(w) ==
    LET a == IF Sun_isColliding(w.ship1.position, shipRadius) /\ ~w.ship1.shieldActive
             THEN [w EXCEPT !.ship1 = Ship_die(w.ship1),
                            !.ship2 = Ship_resetToStart(w.ship2),
                            !.bullets = <<>>,
                            !.died = <<w.died[1] + 1, w.died[2]>>]
             ELSE w
    IN  IF Sun_isColliding(a.ship2.position, shipRadius) /\ ~a.ship2.shieldActive
        THEN [a EXCEPT !.ship1 = Ship_resetToStart(a.ship1),
                       !.ship2 = Ship_die(a.ship2),
                       !.bullets = <<>>,
                       !.died = <<a.died[1], a.died[2] + 1>>]
        ELSE a

\* Check ship collision with sun: ship 1, then ship 2.
Game_sunCollision(w) ==
    LET a == IF Sun_isColliding(w.ship1.position, shipRadius)
             THEN [w EXCEPT !.ship1 = Ship_die(w.ship1),
                            !.ship2 = Ship_resetToStart(w.ship2),
                            !.bullets = <<>>,
                            !.died = <<w.died[1] + 1, w.died[2]>>]
             ELSE w
    IN  IF Sun_isColliding(a.ship2.position, shipRadius)
        THEN [a EXCEPT !.ship1 = Ship_resetToStart(a.ship1),
                       !.ship2 = Ship_die(a.ship2),
                       !.bullets = <<>>,
                       !.died = <<a.died[1], a.died[2] + 1>>]
        ELSE a

SunCollision ==
    /\ pc = "sun"
    /\ LET r == Game_sunCollision(World)
       IN  /\ ship1' = r.ship1
           /\ ship2' = r.ship2
           /\ bullets' = r.bullets
           /\ dieCalls' = <<dieCalls[1] + r.died[1], dieCalls[2] + r.died[2]>>
    /\ pc' = "shipship"
    /\ UNCHANGED <<state, gameMode, hazardsEnabled, asteroids, asteroidSpawnTimer, keys,
                   i, frame, jumps, tickLives, callVars, aiVars>>

\* The ship-to-ship check that treats the overlap like the other deaths: one
\* ship dies and the other is reset to its start.
Game_shipCollision_reset(w) ==
    IF /\ w.ship1.active /\ w.ship2.active
       /\ Vector2_distanceTo(w.ship1.position, w.ship2.position) < shipRadius + shipRadius
    THEN [w EXCEPT !.ship1 = Ship_die(w.ship1), !.ship2 = Ship_resetToStart(w.ship2),
                   !.bullets = <<>>,
                   !.died = <<w.died[1] + 1, w.died[2]>>]
    ELSE w

\* Check ship-to-ship collision
Game_shipCollision(w) ==
    IF /\ w.ship1.active /\ w.ship2.active
       /\ Vector2_distanceTo(w.ship1.position, w.ship2.position) < shipRadius + shipRadius
    THEN [w EXCEPT !.ship1 = Ship_die(w.ship1), !.ship2 = Ship_die(w.ship2),
                   !.bullets = <<>>,
                   !.died = <<w.died[1] + 1, w.died[2] + 1>>]
    ELSE w

\* The ship-to-ship check, then `if (this.hazardsEnabled)`.
ShipCollision ==
    /\ pc = "shipship"
    /\ LET r == Game_shipCollision(World)
       IN  /\ ship1' = r.ship1
           /\ ship2' = r.ship2
           /\ bullets' = r.bullets
           /\ dieCalls' = <<dieCalls[1] + r.died[1], dieCalls[2] + r.died[2]>>
    /\ pc' = IF hazardsEnabled THEN "hazards" ELSE "render"
    /\ UNCHANGED <<state, gameMode, hazardsEnabled, asteroids, asteroidSpawnTimer, keys,
                   i, frame, jumps, tickLives, callVars, aiVars>>

\* spawnAsteroid(), with its random draws d.
Game_spawnAsteroid(d) ==
    LET dist == Quot(playRadius * 900, 1000)
        x == center.x + Quot(Cos(d.angle) * dist, 1000)
        y == center.y + Quot(Sin(d.angle) * dist, 1000)
        targetX == center.x + d.aim.x
        targetY == center.y + d.aim.y
        toTarget == Vec(Quot(targetX - x, 100), Quot(targetY - y, 100))
    IN  Asteroid_new(x, y, d.radius, Vector2_normalizeTo(toTarget, d.speed))

\* The index of the bullet that the inner loop of updateAsteroids finds for
\* asteroid a, scanning from the end of the array down to j (0: none).
RECURSIVE Game_asteroidBullet(_, _, _)
Game_asteroidBullet(a, bs, j) ==
    IF j = 0 THEN 0
    ELSE IF Vector2_distanceTo(a.position, bs[j].position) < a.radius + bulletRadius THEN j
    ELSE Game_asteroidBullet(a, bs, j - 1)

\* One iteration of the asteroid loop, for the asteroid at index k.
Game_asteroidIteration(w, k) ==
    LET a == Asteroid_update(w.asteroids[k])
        hit1 == /\ w.ship1.active /\ ~w.ship1.shieldActive
                /\ Vector2_distanceTo(a.position, w.ship1.position) < a.radius + shipRadius
        w1 == IF hit1
              THEN [w EXCEPT !.ship1 = Ship_die(w.ship1),
                             !.ship2 = Ship_resetToStart(w.ship2),
                             !.bullets = <<>>,
                             !.died = <<w.died[1] + 1, w.died[2]>>]
              ELSE w
        hit2 == /\ w1.ship2.active /\ ~w1.ship2.shieldActive
                /\ Vector2_distanceTo(a.position, w1.ship2.position) < a.radius + shipRadius
        w2 == IF hit2
              THEN [w1 EXCEPT !.ship2 = Ship_die(w1.ship2),
                              !.ship1 = Ship_resetToStart(w1.ship1),
                              !.bullets = <<>>,
                              !.died = <<w1.died[1], w1.died[2] + 1>>]
              ELSE w1
        j == Game_asteroidBullet(a, w2.bullets, Len(w2.bullets))
    IN  IF Sun_isColliding(a.position, a.radius)
        THEN [w EXCEPT !.asteroids = Splice(w.asteroids, k)]
        ELSE IF j > 0
             THEN [w2 EXCEPT !.asteroids = Splice(w.asteroids, k),
                             !.bullets = Splice(w2.bullets, j)]
        ELSE [w2 EXCEPT !.asteroids[k] = a]

RECURSIVE Game_asteroidLoop(_, _)
Game_asteroidLoop(w, k) ==
    IF k = 0 THEN w ELSE Game_asteroidLoop(Game_asteroidIteration(w, k), k - 1)

\* updateAsteroids(): the spawn timer, then the loop over the asteroids.
UpdateAsteroids(B) ==
    /\ pc = "hazards"
    /\ LET counting == Len(asteroids) < maxAsteroids
           spawning == counting /\ asteroidSpawnTimer + 1 > asteroidSpawnDelay
       IN  /\ asteroidSpawnTimer' = IF spawning THEN 0
                                    ELSE IF counting THEN asteroidSpawnTimer + 1
                                    ELSE asteroidSpawnTimer
           /\ \E d \in IF spawning THEN B.draws ELSE {CHOOSE e \in B.draws : TRUE} :
              \E spawned \in {IF spawning THEN Append(asteroids, Game_spawnAsteroid(d))
                               ELSE asteroids} :
              \E r \in {Game_asteroidLoop([World EXCEPT !.asteroids = spawned],
                                          Len(spawned))} :
                 /\ ship1' = r.ship1
                 /\ ship2' = r.ship2
                 /\ bullets' = r.bullets
                 /\ asteroids' = r.asteroids
                 /\ dieCalls' = <<dieCalls[1] + r.died[1], dieCalls[2] + r.died[2]>>
    /\ pc' = "render"
    /\ UNCHANGED <<state, gameMode, hazardsEnabled, keys, i, frame, jumps, tickLives,
                   callVars, aiVars>>

\* render(): renderUI's check for game over.
Render ==
    /\ pc = "render"
    /\ state' = IF (ship1.lives <= 0 \/ ship2.lives <= 0) /\ state = "playing"
                THEN "gameOver" ELSE state
    /\ frame' = frame + 1
    /\ pc' = "loop"
    /\ UNCHANGED <<gameMode, hazardsEnabled, ship1, ship2, bullets, asteroids,
                   asteroidSpawnTimer, keys, i, jumps, tickLives, dieCalls, callVars, aiVars>>

\* renderGameOver() without the test for a draw.
Game_renderGameOver_noDraw(s1, s2) ==
    IF s1.lives <= 0 THEN "PLAYER 2 WINS!" ELSE "PLAYER 1 WINS!"

\* renderGameOver(): the result shown.
Game_renderGameOver(s1, s2) ==
    IF s1.lives <= 0 /\ s2.lives <= 0 THEN "DRAW!"
    ELSE IF s1.lives <= 0 THEN "PLAYER 2 WINS!"
    ELSE "PLAYER 1 WINS!"

\* gameLoop in state 'gameOver' with the space key down: handleGameOverInput.
HandleGameOverInput ==
    /\ pc = "loop" /\ state = "gameOver"
    /\ state' = "menu"
    /\ gameMode' = "null"
    /\ UNCHANGED <<hazardsEnabled, ship1, ship2, bullets, asteroids, asteroidSpawnTimer,
                   keys, pc, i, frame, jumps, tickLives, dieCalls, callVars, aiVars>>

\* The rest of one frame, after the commands.
Frame ==
    \/ ApplyGravity
    \/ BulletStep
    \/ UpdateShips
    \/ SunCollision
    \/ ShipCollision
    \/ Render

Next ==
    \/ StartGame
    \/ KeyEvent(Short)
    \/ HandleInput(Short)
    \/ Frame

Spec == Init /\ [][Next]_vars

NextLong ==
    \/ StartGame
    \/ KeyEvent(Long)
    \/ HandleInput(Long)
    \/ Frame

SpecLong == Init /\ [][NextLong]_vars

NextHazards ==
    \/ ToggleHazards
    \/ StartGame
    \/ KeyEvent(Hazards)
    \/ HandleInput(Hazards)
    \/ Frame
    \/ UpdateAsteroids(Hazards)

SpecHazards == Init /\ [][NextHazards]_vars

NextEndgame ==
    \/ StartGame
    \/ KeyEvent(Endgame)
    \/ HandleInput(Endgame)
    \/ Frame
    \/ HandleGameOverInput

SpecEndgame == Init /\ [][NextEndgame]_vars

NextFlight ==
    \/ ToggleHazards
    \/ StartGame
    \/ KeyEvent(Flight)
    \/ HandleInput(Flight)
    \/ Frame
    \/ UpdateAsteroids(Flight)

SpecFlight == Init /\ [][NextFlight]_vars

NextAI ==
    \/ CycleDifficulty
    \/ StartGameAI
    \/ KeyEvent(Duel)
    \/ HandleInput(Duel)
    \/ Frame

SpecAI == Init /\ [][NextAI]_vars

NextBarrage ==
    \/ StartGame
    \/ KeyEvent(Barrage)
    \/ HandleInput(Barrage)
    \/ Frame

SpecBarrage == Init /\ [][NextBarrage]_vars

(***************************************************************************)
(* Matches against the AI, taken up in the middle of play                  *)
(***************************************************************************)
\* Where the two ships have flown to when the AI is about to evaluate:
\* "plunge": the AI ship passes the sun 48 pixels from its centre, player 1
\*   waits at the start position;
\* "ambush": the AI ship drifts sunward, 252 pixels from the sun, and player 1
\*   has flown to 150 pixels from it and points at it.
Scenes ==
    {[name |-> "plunge",
      ship |-> [position |-> Vec(352000, 400000), velocity |-> Vec(0, 2000), angle |-> 0],
      enemy |-> [position |-> Vec(650000, 400000), velocity |-> Vec(0, 0), angle |-> PiM]],
     [name |-> "ambush",
      ship |-> [position |-> Vec(148000, 400000), velocity |-> Vec(2000, 0), angle |-> 0],
      enemy |-> [position |-> Vec(148000, 250000), velocity |-> Vec(0, 0),
                 angle |-> HalfPiM]]}

\* The game in state 'playing' against the AI of the given level, the ships
\* as in scene sc, the AI one update() call before its next evaluation.
Game_midMatch(sc, level) ==
    /\ state = "playing"
    /\ gameMode = "ai"
    /\ aiDifficulty = level
    /\ ai = [AI_new(level) EXCEPT !.frameCounter = AI_new(level).updateInterval - 1]
    /\ hazardsEnabled = FALSE
    /\ ship1 = [Ship1 EXCEPT !.position = sc.enemy.position,
                             !.velocity = sc.enemy.velocity, !.angle = sc.enemy.angle]
    /\ ship2 = [Ship2 EXCEPT !.position = sc.ship.position,
                             !.velocity = sc.ship.velocity, !.angle = sc.ship.angle]
    /\ bullets = <<>>
    /\ asteroids = <<>>
    /\ asteroidSpawnTimer = 0
    /\ keys = <<Idle, Idle>>
    /\ pc = "loop"
    /\ i = 0
    /\ frame = 0
    /\ jumps = 0
    /\ tickLives = <<startLives, startLives>>
    /\ dieCalls = <<0, 0>>
    /\ op = "new"
    /\ ret = NoBullet
    /\ calls = [thrust |-> 0, applyForce |-> 0, other |-> 0]

InitSkirmish ==
    \E sc \in Scenes, level \in {"easy", "medium", "hard"} : Game_midMatch(sc, level)

\* Player 1 waits, or from the first frame on turns or fires.
Skirmish == [maxFrames |-> MaxFramesSkirmish, maxJumps |-> MaxJumpsSkirmish,
             keys |-> (0 :> {<<Turn, Idle>>, <<Shoot, Idle>>}),
             malfunction |-> {FALSE}, targets |-> {Vec(650000, 400000)}, draws |-> {},
             random |-> AIDraws]

NextSkirmish ==
    \/ KeyEvent(Skirmish)
    \/ HandleInput(Skirmish)
    \/ Frame

SpecSkirmish == InitSkirmish /\ [][NextSkirmish]_vars

(***************************************************************************)
(* The methods of Ship called one by one on ship 1                         *)
(***************************************************************************)
\* Calls explored on a ship: of any method, and in the runs of thrust()
\* calls, of thrust and of applyForce.
MaxCalls == 4
MaxThrusts == 36
MaxForces == 1

AnyCalls == [thrust |-> MaxCalls, applyForce |-> MaxCalls, other |-> MaxCalls,
             total |-> MaxCalls]

ThrustCalls == [thrust |-> MaxThrusts, applyForce |-> MaxForces, other |-> 0,
                total |-> MaxThrusts + MaxForces]

\* Forces applied: the sun's pull on a ship 41 pixels and 250 pixels away.
Forces == {Vec(300, 0), Vec(-8, 0)}

\* Velocities, headings and tanks a ship may have when thrust() is called:
\* at rest, just below the speed cap, and above it after a fall toward the
\* sun; the tank off, full, and one unit from empty.
Velocities == {Vec(0, 0), Vec(2200, 0), Vec(-2000, 1000), Vec(3000, -3000),
               Vec(0, 4400), Vec(-1500, -1600)}

Headings == {0, 785, HalfPiM, PiM, 4000, -2356}

Tanks == {[enabled |-> FALSE, fuel |-> maxFuel], [enabled |-> TRUE, fuel |-> maxFuel],
          [enabled |-> TRUE, fuel |-> 1000]}

\* Ship 1 after earlier lives: respawned with l lives left.
InitShip == \E l \in 1..startLives : Game_new([Ship1 EXCEPT !.lives = l])

InitThrust ==
    \E v \in Velocities, a \in Headings, t \in Tanks :
        Game_new([Ship1 EXCEPT !.velocity = v, !.angle = a,
                               !.fuelEnabled = t.enabled, !.fuel = t.fuel])

\* One call of a method: the ship after it and the value returned.
Call(B, kind, after, returned) ==
    /\ calls[kind] < B[kind]
    /\ calls.thrust + calls.applyForce + calls.other < B.total
    /\ calls' = [calls EXCEPT ![kind] = @ + 1]
    /\ ship1' = after
    /\ ret' = returned
    /\ UNCHANGED gameVars

CallThrust(B) ==
    /\ op' = "thrust"
    /\ Call(B, "thrust", Ship_thrust(ship1), NoBullet)

CallApplyForce(B) ==
    /\ op' = "applyForce"
    /\ \E f \in Forces : Call(B, "applyForce", Ship_applyForce(ship1, f), NoBullet)

CallDie ==
    /\ op' = "die"
    /\ Call(AnyCalls, "other", Ship_die(ship1), NoBullet)

CallRespawn ==
    /\ op' = "respawn"
    /\ Call(AnyCalls, "other", Ship_respawn(ship1), NoBullet)

CallResetToStart ==
    /\ op' = "resetToStart"
    /\ Call(AnyCalls, "other", Ship_resetToStart(ship1), NoBullet)

CallUpdate ==
    /\ op' = "update"
    /\ Call(AnyCalls, "other", Ship_update(ship1), NoBullet)

CallRotate ==
    /\ op' = "rotate"
    /\ \E d \in {-1, 1} : Call(AnyCalls, "other", Ship_rotate(ship1, d), NoBullet)

CallHyperspace ==
    /\ op' = "hyperspace"
    /\ \E m \in BOOLEAN :
          Call(AnyCalls, "other", Ship_hyperspace(ship1, m, Vec(628000, 400000)), NoBullet)

CallSetShield ==
    /\ op' = "setShield"
    /\ \E w \in BOOLEAN : Call(AnyCalls, "other", Ship_setShield(ship1, w), NoBullet)

CallShoot ==
    /\ op' = "shoot"
    /\ Call(AnyCalls, "other", Ship_shoot(ship1).ship, Ship_shoot(ship1).bullet)

CallAddFuel ==
    /\ op' = "addFuel"
    /\ Call(AnyCalls, "other", Ship_addFuel(ship1, 250000), NoBullet)

NextShip ==
    \/ CallThrust(AnyCalls)
    \/ CallApplyForce(AnyCalls)
    \/ CallDie
    \/ CallRespawn
    \/ CallResetToStart
    \/ CallUpdate
    \/ CallRotate
    \/ CallHyperspace
    \/ CallSetShield
    \/ CallShoot
    \/ CallAddFuel

SpecShip == InitShip /\ [][NextShip]_vars

NextThrust ==
    \/ CallThrust(ThrustCalls)
    \/ CallApplyForce(ThrustCalls)

SpecThrust == InitThrust /\ [][NextThrust]_vars

\* Ship 1 after some play: its energy drained or regenerating with the shield
\* up or down, its hyperspace drive used, its tank (with the fuel subsystem
\* on) full, nearly full, nearly empty or empty, or the ship destroyed.
Energies == {0, 25, 500, 5000, 5025, 99975, maxEnergy}

Drives == {[charges |-> 0, cooldown |-> 0], [charges |-> 0, cooldown |-> 1],
           [charges |-> 0, cooldown |-> hyperspaceCooldownMax],
           [charges |-> 1, cooldown |-> 0], [charges |-> 2, cooldown |-> 1],
           [charges |-> 2, cooldown |-> hyperspaceCooldownMax]}

Fuels == {0, 100, 1000, 999900, maxFuel}

WornShips ==
    {[Ship1 EXCEPT !.energy = e] : e \in Energies} \cup
    {[Ship1 EXCEPT !.energy = e, !.shieldActive = TRUE] : e \in Energies \ {0}} \cup
    {[Ship1 EXCEPT !.hyperspaceCharges = d.charges, !.hyperspaceCooldown = d.cooldown] :
        d \in Drives} \cup
    {[Ship1 EXCEPT !.fuelEnabled = TRUE, !.fuel = f] : f \in Fuels} \cup
    {Ship_die([Ship1 EXCEPT !.hyperspaceCharges = 2])}

InitWorn == \E s \in WornShips : Game_new(s)

SpecWorn == InitWorn /\ [][NextShip]_vars

(***************************************************************************)
(* Bodies in the arena: their updates, the sun's pull on them, and the     *)
(* difference between two headings                                         *)
(***************************************************************************)
\* Where a ship or an asteroid may be, and how it moves: about to cross the
\* rim, reaching it exactly, outside it after a jump, well inside, and at or
\* inside the sun's radius after a jump.
Bodies ==
    {[position |-> Vec(789000, 400000), velocity |-> Vec(2000, 0)],
     [position |-> Vec(788000, 400000), velocity |-> Vec(1000, 0)],
     [position |-> Vec(400000, 11000), velocity |-> Vec(-300, -2200)],
     [position |-> Vec(675000, 675000), velocity |-> Vec(1500, 1500)],
     [position |-> Vec(123000, 126000), velocity |-> Vec(-1200, -900)],
     [position |-> Vec(795000, 380000), velocity |-> Vec(0, 0)],
     [position |-> Vec(650000, 400000), velocity |-> Vec(0, 0)],
     [position |-> Vec(600000, 250000), velocity |-> Vec(-1000, 500)],
     [position |-> Vec(430000, 400000), velocity |-> Vec(0, 0)],
     [position |-> Vec(418000, 376000), velocity |-> Vec(0, 0)],
     [position |-> Vec(429900, 400000), velocity |-> Vec(0, 0)],
     [position |-> Vec(400000, 400000), velocity |-> Vec(0, 0)],
     [position |-> Vec(390000, 412000), velocity |-> Vec(0, 0)]}

\* Headings: a ship's angle is never normalised, so it carries the turns made.
Angles ==
    {a + k * TwoPiM : a \in {-PiM, 1 - PiM, -HalfPiM, -51, 0, 50, HalfPiM, PiM - 1, PiM},
                      k \in -MaxWinding .. MaxWinding}

\* A game with hazards in state 'playing': ship 1, active or destroyed, and
\* one asteroid, both placed as one of the bodies.
InitBodies ==
    \E b \in Bodies, a \in {0, PiM, -HalfPiM - TwoPiM}, alive \in BOOLEAN :
        /\ state = "playing"
        /\ gameMode = "pvp"
        /\ aiDifficulty = "easy"
        /\ ai = NoAI
        /\ hazardsEnabled = TRUE
        /\ ship1 = LET s == [Ship1 EXCEPT !.position = b.position,
                                          !.velocity = b.velocity, !.angle = a]
                   IN  IF alive THEN s ELSE Ship_die(s)
        /\ ship2 = Ship2
        /\ bullets = <<>>
        /\ asteroids = <<Asteroid_new(b.position.x, b.position.y, 12000, b.velocity)>>
        /\ asteroidSpawnTimer = 0
        /\ keys = <<Idle, Idle>>
        /\ pc = "loop"
        /\ i = 0
        /\ frame = 0
        /\ jumps = 0
        /\ tickLives = <<startLives, startLives>>
        /\ dieCalls = <<0, 0>>
        /\ op = "new"
        /\ ret = NoBullet
        /\ calls = [thrust |-> 0, applyForce |-> 0, other |-> 0]

\* asteroid.update(canvasWidth, canvasHeight) on each asteroid
CallAsteroidUpdate ==
    /\ calls.thrust + calls.applyForce + calls.other < MaxCalls
    /\ op' = "asteroid.update"
    /\ calls' = [calls EXCEPT !.other = @ + 1]
    /\ asteroids' = [k \in DOMAIN asteroids |-> Asteroid_update(asteroids[k])]
    /\ ret' = NoBullet
    /\ UNCHANGED <<state, gameMode, aiDifficulty, ai, hazardsEnabled, ship1, ship2, bullets,
                   asteroidSpawnTimer, keys, pc, i, frame, jumps, tickLives, dieCalls>>

\* sun.getGravitationalForce(position, mass, G) for ship 1, for a bullet at
\* its place, and for the asteroid; ret holds the arguments and the result.
CallGetGravitationalForce ==
    /\ op' = "getGravitationalForce"
    /\ \E p \in {ship1.position, asteroids[1].position}, m \in {shipMass, bulletMass} :
          ret' = [position |-> p, mass |-> m, force |-> Sun_getGravitationalForce(p, m)]
    /\ UNCHANGED <<gameVars, ship1, calls>>

\* ai.getAngleDifference(angle1, angle2) from ship 1's angle to a heading;
\* ret holds the arguments and the result.
CallGetAngleDifference ==
    /\ op' = "getAngleDifference"
    /\ \E b \in Angles :
          ret' = [angle1 |-> ship1.angle, angle2 |-> b,
                  diff |-> AI_getAngleDifference(ship1.angle, b)]
    /\ UNCHANGED <<gameVars, ship1, calls>>

NextBodies ==
    \/ CallUpdate
    \/ CallAsteroidUpdate
    \/ CallGetGravitationalForce
    \/ CallGetAngleDifference

SpecBodies == InitBodies /\ [][NextBodies]_vars

(***************************************************************************)
(* Properties                                                              *)
(***************************************************************************)
\* C1: die() on an active ship takes exactly one life, makes the ship
\* inactive and sets respawnTimer to respawnDelay; die() on an inactive ship
\* changes nothing; respawn() makes the ship active only when lives > 0 (with
\* no life left it changes nothing).
C1_DieRespawn ==
    [][/\ (op' = "die" /\ ship1.active) =>
             /\ ship1'.lives = ship1.lives - 1
             /\ ~ship1'.active
             /\ ship1'.respawnTimer = respawnDelay
       /\ (op' = "die" /\ ~ship1.active) => ship1' = ship1
       /\ (op' = "respawn" /\ ship1'.active) => ship1.lives > 0
       /\ (op' = "respawn" /\ ship1.lives <= 0) => ship1' = ship1]_vars

\* respawn() was called on a ship that die() had just brought to 0 lives, and
\* the ship stayed inactive.
C1_Witness ==
    /\ op = "respawn"
    /\ ship1.lives = 0
    /\ ~ship1.active
    /\ ship1.respawnTimer = respawnDelay

\* C2: a ship is active or inactive; an inactive ship with lives left becomes
\* active in the update in which its respawn timer reaches zero, and in no
\* other step of a match; a ship with 0 lives is inactive and stays so with
\* 0 lives for the rest of the match; lives is never negative.
C2_Lifecycle ==
    [][\A p \in {1, 2} :
          LET s == IF p = 1 THEN ship1 ELSE ship2
              t == IF p = 1 THEN ship1' ELSE ship2'
          IN  /\ t.active \in BOOLEAN
              /\ t.lives >= 0
              /\ t.lives = 0 => ~t.active
              /\ (pc = "ships" /\ ~s.active /\ s.lives > 0 /\ s.respawnTimer - 1 <= 0)
                    => t.active
              /\ (state = "playing" /\ ~s.active /\ t.active)
                    => (pc = "ships" /\ s.lives > 0 /\ s.respawnTimer - 1 <= 0)
              /\ (state # "menu" /\ s.lives = 0) => (t.lives = 0 /\ ~t.active)]_vars

\* The match ended with ship 2 eliminated, after ship 1 had died once and
\* respawned.
C2_Witness ==
    /\ state = "gameOver"
    /\ ship2.lives = 0
    /\ ~ship2.active
    /\ ship1.active
    /\ ship1.lives = startLives - 1

\* C3: an inactive ship takes part in no collision: a bullet of the other
\* ship passing over the wreck stays in flight and changes nothing, and the
\* wreck lying in the sun changes nothing (no reset of the opponent, no
\* clearing of the bullets).
C3_WreckInert ==
    [][\A p \in {1, 2} :
          LET wreck == IF p = 1 THEN ship1 ELSE ship2
              other == IF p = 1 THEN ship2 ELSE ship1
              u == Game_moveBullet(bullets[i])
          IN  /\ (/\ pc = "bullets"
                  /\ ~wreck.active
                  /\ bullets[i].active
                  /\ bullets[i].ownerId = other.id
                  /\ ~Sun_isColliding(u.position, bulletRadius)
                  /\ Vector2_distanceTo(u.position, wreck.position)
                        < bulletRadius + shipRadius)
                    => /\ bullets' = [bullets EXCEPT ![i] = u]
                       /\ ship1' = ship1
                       /\ ship2' = ship2
              /\ (/\ pc = "sun"
                  /\ ~wreck.active
                  /\ Sun_isColliding(wreck.position, shipRadius)
                  /\ ~Sun_isColliding(other.position, shipRadius))
                    => /\ bullets' = bullets
                       /\ ship1' = ship1
                       /\ ship2' = ship2]_vars

C5_Ramming ==
    [][(/\ pc = "shipship"
        /\ ship1.active /\ ship2.active
        /\ Vector2_distanceTo(ship1.position, ship2.position) < shipRadius + shipRadius)
          => /\ ~ship1'.active /\ ~ship2'.active
             /\ ship1'.lives = ship1.lives - 1 /\ ship1'.lives = tickLives[1] - 1
             /\ ship2'.lives = ship2.lives - 1 /\ ship2'.lives = tickLives[2] - 1
             /\ ship1'.position = ship1.position /\ ship1'.velocity = ship1.velocity
             /\ ship1'.angle = ship1.angle
             /\ ship2'.position = ship2.position /\ ship2'.velocity = ship2.velocity
             /\ ship2'.angle = ship2.angle]_vars

\* Both ships died in the ship-to-ship check, ship 2 away from its start.
C5_Witness ==
    /\ pc = "render"
    /\ dieCalls = <<1, 1>>
    /\ ~ship1.active /\ ~ship2.active
    /\ ship1.lives = tickLives[1] - 1 /\ ship2.lives = tickLives[2] - 1
    /\ Vector2_distanceTo(ship1.position, ship2.position) < shipRadius + shipRadius
    /\ ship2.position # ship2.startPosition

\* C6: the iteration of the bullet loop never changes the lives or the active
\* flag of the bullet's owner; a bullet in play that overlaps its owner (shield
\* included) and not the other ship stays in the list, moved, and both ships
\* are unchanged; a bullet in play that overlaps the other ship, active with
\* its shield down, kills that ship in this iteration.
C6_OwnerImmunity ==
    [][pc = "bullets" =>
          LET b == bullets[i]
              u == Game_moveBullet(b)
              owner == IF b.ownerId = 1 THEN ship1 ELSE ship2
              other == IF b.ownerId = 1 THEN ship2 ELSE ship1
              ownerAfter == IF b.ownerId = 1 THEN ship1' ELSE ship2'
              otherAfter == IF b.ownerId = 1 THEN ship2' ELSE ship1'
              inPlay == b.active /\ u.active /\ ~Sun_isColliding(u.position, bulletRadius)
              Over(s) == Vector2_distanceTo(u.position, s.position)
                            < bulletRadius + shipRadius
                               + (IF s.shieldActive THEN shieldExtraRadius ELSE 0)
          IN  /\ ownerAfter.lives = owner.lives
              /\ ownerAfter.active = owner.active
              /\ (inPlay /\ Over(owner) /\ ~Over(other))
                    => /\ bullets' = [bullets EXCEPT ![i] = u]
                       /\ ship1' = ship1
                       /\ ship2' = ship2
              /\ (inPlay /\ Over(other) /\ other.active /\ ~other.shieldActive)
                    => /\ ~otherAfter.active
                       /\ otherAfter.lives = other.lives - 1]_vars

\* A bullet of ship 1 has just been moved while overlapping its shielded
\* owner, and is still in flight.
C6_Witness ==
    /\ pc = "ships"
    /\ ship1.active /\ ship1.shieldActive
    /\ \E k \in 1..Len(bullets) :
          /\ bullets[k].ownerId = 1
          /\ bullets[k].active
          /\ Vector2_distanceTo(bullets[k].position, ship1.position)
                < bulletRadius + shipRadius + shieldExtraRadius

\* C7: when a bullet in play hits the active ship that is not its owner: if
\* that ship's shield is up the bullet is removed and both ships are unchanged
\* (the ship active, its lives unchanged); if the shield is down the ship dies
\* (inactive, one life less) and the opponent is reset to its start state.
C7_ShieldOrDeath ==
    [][pc = "bullets" =>
          LET b == bullets[i]
              u == Game_moveBullet(b)
              target == IF b.ownerId = 1 THEN ship2 ELSE ship1
              opponent == IF b.ownerId = 1 THEN ship1 ELSE ship2
              targetAfter == IF b.ownerId = 1 THEN ship2' ELSE ship1'
              opponentAfter == IF b.ownerId = 1 THEN ship1' ELSE ship2'
              hit == /\ b.active /\ u.active
                     /\ ~Sun_isColliding(u.position, bulletRadius)
                     /\ target.active
                     /\ Vector2_distanceTo(u.position, target.position)
                           < bulletRadius + shipRadius
                              + (IF target.shieldActive THEN shieldExtraRadius ELSE 0)
          IN  /\ (hit /\ target.shieldActive)
                    => /\ bullets' = Splice(bullets, i)
                       /\ targetAfter = target
                       /\ opponentAfter = opponent
              /\ (hit /\ ~target.shieldActive)
                    => /\ ~targetAfter.active
                       /\ targetAfter.lives = target.lives - 1
                       /\ opponentAfter.position = opponent.startPosition
                       /\ opponentAfter.velocity = Vec(0, 0)
                       /\ opponentAfter.angle = opponent.startAngle
                       /\ opponentAfter.energy = maxEnergy
                       /\ opponentAfter.hyperspaceCharges = maxHyperspaceCharges
                       /\ ~opponentAfter.shieldActive
                       /\ opponentAfter.lives = opponent.lives
                       /\ opponentAfter.active = opponent.active]_vars

\* The bullet ship 1 fired in this update is gone before the ships are
\* updated, nobody died, and ship 2 stands shielded beside ship 1: its shield
\* absorbed the bullet.
C7_Witness ==
    /\ pc = "ships"
    /\ ship1.active /\ ship1.shootCooldown = shootCooldownMax
    /\ bullets = <<>>
    /\ dieCalls = <<0, 0>>
    /\ ship2.active /\ ship2.shieldActive /\ ship2.lives = startLives
    /\ Vector2_distanceTo(ship1.position, ship2.position) < 30000

\* C8: a raised shield does not save a ship from the sun or from the
\* ship-to-ship overlap, and saves it from every asteroid: in the sun check a
\* shielded active ship inside the sun dies (ship 2 unless ship 1's death has
\* just reset it to its start); in the ship-to-ship check two overlapping
\* active ships die whatever their shields; in updateAsteroids a ship whose
\* shield is up and stays up (the other ship does not die, which would reset
\* it) keeps its lives and stays active.
C8_ShieldScope ==
    [][/\ (pc = "sun" /\ ship1.active /\ ship1.shieldActive
             /\ Sun_isColliding(ship1.position, shipRadius))
          => (~ship1'.active /\ ship1'.lives = ship1.lives - 1)
       /\ (pc = "sun" /\ ship2.active /\ ship2.shieldActive
             /\ Sun_isColliding(ship2.position, shipRadius)
             /\ ~Sun_isColliding(ship1.position, shipRadius))
          => (~ship2'.active /\ ship2'.lives = ship2.lives - 1)
       /\ (pc = "shipship" /\ ship1.active /\ ship2.active
             /\ (ship1.shieldActive \/ ship2.shieldActive)
             /\ Vector2_distanceTo(ship1.position, ship2.position) < shipRadius + shipRadius)
          => /\ ~ship1'.active /\ ship1'.lives = ship1.lives - 1
             /\ ~ship2'.active /\ ship2'.lives = ship2.lives - 1
       /\ (pc = "hazards" /\ ship1.active /\ ship1.shieldActive /\ ship2'.lives = ship2.lives)
          => (ship1'.active /\ ship1'.lives = ship1.lives)
       /\ (pc = "hazards" /\ ship2.active /\ ship2.shieldActive /\ ship1'.lives = ship1.lives)
          => (ship2'.active /\ ship2'.lives = ship2.lives)]_vars

\* updateAsteroids has run with an asteroid overlapping shielded ship 1, which
\* is still active.
C8_Witness ==
    /\ pc = "render"
    /\ hazardsEnabled
    /\ ship1.active /\ ship1.shieldActive
    /\ dieCalls = <<0, 0>>
    /\ \E k \in 1..Len(asteroids) :
          Vector2_distanceTo(asteroids[k].position, ship1.position)
             < asteroids[k].radius + shipRadius

\* C9: while the shoot command is applied, a ship whose cooldown is above 0
\* or that is inactive appends no bullet and keeps its cooldown; an active ship
\* whose cooldown is 0 appends one bullet of its own and its cooldown becomes
\* shootCooldownMax; and the cooldown changes in no other way than by one per
\* Ship.update, so 30 updates separate two shots.
C9_ShootCooldown ==
    [][\A p \in {1, 2} :
          LET s == IF p = 1 THEN ship1 ELSE ship2
              t == IF p = 1 THEN ship1' ELSE ship2'
              appended == SubSeq(bullets', Len(bullets) + 1, Len(bullets'))
              fired == Cardinality({k \in 1..Len(appended) : appended[k].ownerId = p})
              commands == pc = "loop" /\ pc' = "gravity"
          IN  /\ (commands /\ keys[p].shoot /\ (s.shootCooldown > 0 \/ ~t.active))
                    => (fired = 0 /\ t.shootCooldown = s.shootCooldown)
              /\ (commands /\ keys[p].shoot /\ s.shootCooldown = 0 /\ t.active)
                    => (fired = 1 /\ t.shootCooldown = shootCooldownMax)
              /\ (commands /\ ~keys[p].shoot)
                    => (fired = 0 /\ t.shootCooldown = s.shootCooldown)
              /\ (state = "playing" /\ ~commands)
                    => IF pc = "ships" /\ s.shootCooldown > 0
                       THEN t.shootCooldown = s.shootCooldown - 1
                       ELSE t.shootCooldown = s.shootCooldown]_vars

\* Ship 1 has just fired again while its previous bullet, 30 updates old, is
\* still in flight.
C9_Witness ==
    /\ pc = "gravity"
    /\ ship1.shootCooldown = shootCooldownMax
    /\ \E j, k \in 1..Len(bullets) :
          /\ bullets[j].ownerId = 1 /\ bullets[j].lifetime = bulletLifetime
          /\ bullets[k].ownerId = 1
          /\ bullets[k].lifetime = bulletLifetime - shootCooldownMax

\* C10 (as amended): after a thrust() call that an active ship accepts (the
\* fuel subsystem off, or fuel above 0) the speed is at most maxSpeed whatever
\* the velocity was before, and the velocity has the direction of the sum of
\* the old velocity and the thrust vector (the sum itself when that is within
\* the cap).
C10_ThrustClamp ==
    [][(op' = "thrust" /\ ship1.active /\ ~(ship1.fuelEnabled /\ ship1.fuel <= 0)) =>
          LET thrustVector == Vec(Quot(Cos(ship1.angle) * thrustPower, 1000),
                                  Quot(Sin(ship1.angle) * thrustPower, 1000))
              sum == Vec(ship1.velocity.x + thrustVector.x, ship1.velocity.y + thrustVector.y)
              v == ship1'.velocity
          IN  /\ v.x * v.x + v.y * v.y <= maxSpeed * maxSpeed
              /\ sum.x * sum.x + sum.y * sum.y <= maxSpeed * maxSpeed => v = sum
              /\ Abs(sum.x * v.y - sum.y * v.x) <= Abs(sum.x) + Abs(sum.y)
              /\ sum.x * v.x + sum.y * v.y >= 0]_vars

\* thrust() has cut a velocity above the cap down to the cap, along the x axis.
C10_Witness ==
    /\ op = "thrust"
    /\ calls.thrust >= 2
    /\ ~ship1.fuelEnabled
    /\ ship1.velocity = Vec(maxSpeed, 0)

\* C10 as stated: after any thrust() call on an active ship the speed is at
\* most maxSpeed.
C10_ThrustClampAlways ==
    [][(op' = "thrust" /\ ship1.active) =>
          ship1'.velocity.x * ship1'.velocity.x + ship1'.velocity.y * ship1'.velocity.y
             <= maxSpeed * maxSpeed]_vars

C12_FuelBounds ==
    [][ship1.fuelEnabled =>
          /\ ship1'.fuel >= 0
          /\ ship1'.fuel <= maxFuel
          /\ (op' \in {"thrust", "rotate"} /\ ship1.fuel <= 0)
                => /\ ship1'.velocity = ship1.velocity
                   /\ ship1'.angle = ship1.angle
                   /\ ship1'.fuel = ship1.fuel
          /\ (op' = "thrust" /\ ship1.active /\ ship1.fuel > 0)
                => ship1'.fuel = ship1.fuel - thrustFuelCost
          /\ (op' = "rotate" /\ ship1.active /\ ship1.fuel > 0)
                => ship1'.fuel = ship1.fuel - rotateFuelCost
          /\ (op' = "addFuel" /\ ship1.active /\ ship1.fuel >= 0)
                => ship1'.fuel = IF ship1.fuel + 250000 > maxFuel THEN maxFuel
                                 ELSE ship1.fuel + 250000]_vars

\* C13: hyperspace() on a ship without charges, or on cooldown, or inactive,
\* changes nothing of the ship.
C13_HyperspaceRefused ==
    [][(/\ op' = "hyperspace"
        /\ \/ ship1.hyperspaceCharges = 0
           \/ ship1.hyperspaceCooldown > 0
           \/ ~ship1.active)
          => ship1' = ship1]_vars

\* hyperspace() was called, as the first call, on a ship in play whose drive
\* is ready but has no charge left, and the ship is where it was.
C13_Witness ==
    /\ op = "hyperspace"
    /\ calls.other = 1
    /\ ship1.active
    /\ ship1.hyperspaceCharges = 0
    /\ ship1.hyperspaceCooldown = 0
    /\ ship1.position = ship1.startPosition

\* C14: hyperspaceCharges stays within 0..3; an accepted hyperspace() takes
\* exactly one charge and sets the cooldown to its maximum, whether the ship
\* jumps or dies; the charges grow only in resetToStart(), called directly
\* or by a respawn.
C14_Charges ==
    [][/\ ship1'.hyperspaceCharges \in 0..maxHyperspaceCharges
       /\ (/\ op' = "hyperspace" /\ ship1.active
           /\ ship1.hyperspaceCooldown = 0 /\ ship1.hyperspaceCharges > 0)
             => /\ ship1'.hyperspaceCharges = ship1.hyperspaceCharges - 1
                /\ ship1'.hyperspaceCooldown = hyperspaceCooldownMax
       /\ ship1'.hyperspaceCharges > ship1.hyperspaceCharges
             => \/ op' = "resetToStart"
                \/ op' = "respawn" /\ ship1.lives > 0
                \/ op' = "update" /\ ~ship1.active /\ ship1'.active]_vars

\* A malfunction took the last charge of a ship: it died with no charge
\* left and the cooldown at its maximum.
C14_Witness ==
    /\ op = "hyperspace"
    /\ ~ship1.active
    /\ ship1.respawnTimer = respawnDelay
    /\ ship1.hyperspaceCharges = 0
    /\ ship1.hyperspaceCooldown = hyperspaceCooldownMax

\* C15: right after a hyperspace() that was accepted and did not malfunction,
\* the ship is inside the play circle (at most the play radius from the
\* centre) and at rest.
C15_JumpInsideArena ==
    [][(pc = "loop" /\ pc' = "gravity") =>
          \A p \in {1, 2} :
             LET s == IF p = 1 THEN ship1 ELSE ship2
                 t == IF p = 1 THEN ship1' ELSE ship2'
                 input == Input_getShipInput(Short, p)
             IN  (HyperspaceAccepted(Game_steer(s, input), input) /\ t.active)
                    => /\ Vector2_distanceTo(center, t.position) <= playRadius
                       /\ t.velocity = Vec(0, 0)]_vars

\* C16: within one tick the commands come before gravity, gravity before the
\* integration of positions, and the integration before the collision
\* tests, so that every collision test sees the positions its two bodies
\* hold after this tick's integration: a ship that a bullet was tested
\* against in this tick (a bullet of the other ship still in flight after the
\* bullet loop) is not moved by the integration that follows the test.
C16_TestsAfterIntegration ==
    [][/\ pc' # pc => <<pc, pc'>> \in {<<"loop", "gravity">>, <<"gravity", "bullets">>,
                                       <<"gravity", "ships">>, <<"bullets", "ships">>, <<"ships", "sun">>,
                                       <<"sun", "shipship">>, <<"shipship", "hazards">>,
                                       <<"shipship", "render">>, <<"hazards", "render">>,
                                       <<"render", "loop">>}
       /\ pc = "ships" =>
             /\ (\E k \in 1..Len(bullets) : bullets[k].active /\ bullets[k].ownerId # ship1.id)
                   => ship1'.position = ship1.position
             /\ (\E k \in 1..Len(bullets) : bullets[k].active /\ bullets[k].ownerId # ship2.id)
                   => ship2'.position = ship2.position]_vars

\* C17: the frame in which a ship's lives reach 0 ends with the state
\* 'gameOver'; no Game.update starts with a ship at 0 lives, and none runs
\* in state 'gameOver' or 'menu': the ships stay as they are until startGame,
\* which is called from the menu only; the result shown is a draw exactly
\* when both ships have 0 lives, and otherwise names the ship with lives left.
C17_GameOver ==
    [][LET result == Game_renderGameOver(ship1', ship2')
       IN  /\ (pc = "render" /\ state = "playing" /\ (ship1.lives <= 0 \/ ship2.lives <= 0))
                 => state' = "gameOver"
           /\ (pc = "loop" /\ pc' = "gravity")
                 => (state = "playing" /\ ship1.lives > 0 /\ ship2.lives > 0)
           /\ state = "gameOver"
                 => /\ state' \in {"gameOver", "menu"}
                    /\ pc' = "loop"
                    /\ <<ship1', ship2', bullets'>> = <<ship1, ship2, bullets>>
           /\ (state # "playing" /\ state' = "playing") => state = "menu"
           /\ state' = "gameOver"
                 => /\ result = "DRAW!" <=> (ship1'.lives = 0 /\ ship2'.lives = 0)
                    /\ result = "PLAYER 1 WINS!" => (ship1'.lives > 0 /\ ship2'.lives = 0)
                    /\ result = "PLAYER 2 WINS!" => (ship2'.lives > 0 /\ ship1'.lives = 0)]_vars

\* A match ended in a draw: both ships lost their last life in the same
\* tick, and the game is over.
C17_Witness ==
    /\ state = "gameOver"
    /\ pc = "loop"
    /\ ship1.lives = 0
    /\ ship2.lives = 0
    /\ Game_renderGameOver(ship1, ship2) = "DRAW!"

(***************************************************************************)
(* C18: every projectile is retired                                        *)
(***************************************************************************)
\* The update() calls bullet k of the list has received: one per tick since
\* the tick that fired it, this tick's included once the loop has passed it.
C18_Updates(k) ==
    IF pc \in {"loop", "gravity"} \/ (pc = "bullets" /\ k <= i)
    THEN frame - bullets[k].firedAt
    ELSE frame - bullets[k].firedAt + 1

\* The asteroids of this tick's updateAsteroids, where they are tested.
C18_Rocks ==
    {Asteroid_update(asteroids[k]) : k \in 1..Len(asteroids)} \cup
    {Asteroid_update(Game_spawnAsteroid(d)) : d \in AsteroidDraws \cup FlightDraws}

\* A cause the step has for taking bullet b off the list.
C18_Cause(b) ==
    \/ ~b.active
    \/ dieCalls' # dieCalls
    \/ /\ pc = "bullets"
       /\ LET u == Game_moveBullet(b)
          IN  \/ Sun_isColliding(u.position, bulletRadius)
              \/ \E s \in {ship1, ship2} :
                    /\ s.id # b.ownerId
                    /\ Vector2_distanceTo(u.position, s.position)
                           < bulletRadius + shipRadius
                               + IF s.shieldActive THEN shieldExtraRadius ELSE 0
    \/ /\ pc = "hazards"
       /\ \E a \in C18_Rocks :
             Vector2_distanceTo(a.position, b.position) < a.radius + bulletRadius

C18_Leaves ==
    state = "playing" =>
        \A k \in 1..Len(bullets) :
            (\A j \in 1..Len(bullets') :
                bullets'[j].ownerId # bullets[k].ownerId
                    \/ bullets'[j].firedAt # bullets[k].firedAt)
            => C18_Cause(bullets[k])

C19_Kept(b) ==
    \E j \in 1..Len(bullets') :
        bullets'[j].ownerId = b.ownerId /\ bullets'[j].firedAt = b.firedAt

\* In the bullet loop: a projectile that was inactive when the tick began is
\* dropped and changes nothing else; one that update() has just made inactive
\* changes no ship and is not consumed by a ship or a shield.
C19_BulletLoop ==
    pc = "bullets" =>
        LET b == bullets[i]
            u == Game_moveBullet(b)
        IN  /\ ~b.active => ship1' = ship1 /\ ship2' = ship2 /\ asteroids' = asteroids
            /\ b.active /\ ~u.active =>
                  /\ ship1' = ship1 /\ ship2' = ship2 /\ asteroids' = asteroids
                  /\ C19_Kept(b) \/ Sun_isColliding(u.position, bulletRadius)

\* In updateAsteroids: an inactive projectile is not consumed by an asteroid
\* (it stays on the list unless a ship's death clears the list).
C19_AsteroidLoop ==
    pc = "hazards" =>
        \A k \in 1..Len(bullets) :
            ~bullets[k].active => C19_Kept(bullets[k]) \/ dieCalls' # dieCalls

\* C19: a projectile whose active flag is false kills no ship, is absorbed by
\* no shield and destroys no asteroid, in the tick in which it became inactive
\* and in every later tick.
C19_Inert == [][C19_BulletLoop /\ C19_AsteroidLoop]_vars

\* The part of C19 about ships and shields alone.
C19_InertForShips == [][C19_BulletLoop]_vars

(***************************************************************************)
(* C20: the AI's sun avoidance                                             *)
(***************************************************************************)
\* The step is a Game.update that calls ai.update().
C20_Called == gameMode = "ai" /\ pc = "loop" /\ pc' = "gravity"

\* The call counted the frame and ran makeDecisions().
C20_Evaluated ==
    /\ C20_Called
    /\ ai'.frameCounter = ai.frameCounter + 1
    /\ ai'.frameCounter % ai'.updateInterval = 0

\* An evaluation with the AI ship nearer to the sun than safeDistanceFromSun
\* leaves thrust held, fire released and the heading away from the sun.
C20_Evaluation ==
    C20_Evaluated /\ Vector2_distanceTo(ship2.position, center) < safeDistanceFromSun
        => /\ ai'.shouldThrust
           /\ ~ai'.shouldShoot
           /\ ai'.targetAngle = Atan2(center.y - ship2.position.y,
                                      center.x - ship2.position.x) + PiM

\* After such an evaluation every command carries thrust and no fire.
C20_Held ==
    C20_Called /\ ai'.branch = "avoidSun"
        => ai'.command.thrust /\ ~ai'.command.shoot

\* The same, for the calls made while both ships are active; in the other
\* calls the command is the all-false one and the AI keeps what it holds.
C20_HeldWhileActive ==
    C20_Called /\ ai'.branch = "avoidSun"
        => IF ship2.active /\ ship1.active
           THEN ai'.command.thrust /\ ~ai'.command.shoot
           ELSE ai'.command = Idle /\ ai' = [ai EXCEPT !.command = Idle]

\* C20 as stated: at an evaluation tick with the AI ship's distance to the sun
\* below safeDistanceFromSun (250) the held decisions are thrust = true,
\* shoot = false, targetAngle = angle to the sun + pi, and every command emitted
\* until the next evaluation carries thrust = true and shoot = false.
C20_SunAvoidance == [][C20_Evaluation /\ C20_Held]_vars

\* C20 amended: at an evaluation tick with the AI ship's distance to the sun
\* below 250 the held decisions are thrust = true, shoot = false, targetAngle =
\* angle to the sun + pi; until the next evaluation every command emitted while
\* both ships are active carries thrust = true and shoot = false, and the
\* command emitted while either ship is inactive is all-false.
C20_SunAvoidanceWhileActive == [][C20_Evaluation /\ C20_HeldWhileActive]_vars

\* An evaluation has just chosen sun avoidance, with the AI ship between the
\* sun and its safe distance, and the command returned carries the thrust.
C20_Witness ==
    /\ gameMode = "ai" /\ pc = "gravity"
    /\ ai.branch = "avoidSun"
    /\ ai.frameCounter > 0 /\ ai.frameCounter % ai.updateInterval = 0
    /\ ai.shouldThrust /\ ai.command.thrust /\ ~ai.command.shoot
    /\ ship1.active /\ ship2.active
    /\ Vector2_distanceTo(ship2.position, center) < safeDistanceFromSun

(***************************************************************************)
(* C21: the two sun distances of the AI                                    *)
(***************************************************************************)
\* The distance from the AI ship to the sun, as makeDecisions() computes it.
C21_DistanceToSun == Vector2_distanceTo(ship2.position, center)

\* The dot product of the AI ship's velocity with the direction to the sun.
C21_Dot ==
    ship2.velocity.x * (center.x - ship2.position.x)
        + ship2.velocity.y * (center.y - ship2.position.y)

\* An evaluation between the two distances avoids the sun exactly when the
\* ship moves toward it; an evaluation farther out than both never does.
C21_BandStep ==
    C20_Evaluated
        => /\ /\ safeDistanceFromSun <= C21_DistanceToSun
              /\ C21_DistanceToSun < criticalDistanceFromSun
              => (ai'.branch = "avoidSun" <=> C21_Dot > 0)
           /\ C21_DistanceToSun >= criticalDistanceFromSun => ai'.branch # "avoidSun"

\* C21: the AI's critical sun distance is larger than its safe distance, so
\* that an evaluation with safe <= distance < critical enters sun avoidance
\* exactly when the velocity has a positive dot product with the direction to
\* the sun, and takes the other branches otherwise.
C21_CriticalBand ==
    [](criticalDistanceFromSun > safeDistanceFromSun) /\ [][C21_BandStep]_vars

(***************************************************************************)
(* C22: the emergency hyperspace                                           *)
(***************************************************************************)
\* C22: at any AI evaluation tick at which the AI ship's distance to the sun
\* is below the hard minimum (50), the command emitted by the AI has
\* hyperspace = true, whatever the ship's cooldown or charges.
C22_EmergencyHyperspace ==
    [][C20_Evaluated /\ C21_DistanceToSun < emergencyDistanceFromSun
           => ai'.command.hyperspace]_vars

(***************************************************************************)
(* C23: the behaviours of one evaluation                                   *)
(***************************************************************************)
\* The opponent is within shieldDistance of the AI ship and its heading is
\* within shieldAngle of the direction to the AI ship.
C23_Facing ==
    /\ Vector2_distanceTo(ship2.position, ship1.position) < shieldDistance
    /\ Abs(AI_getAngleDifference(ship1.angle,
                                 Atan2(ship2.position.y - ship1.position.y,
                                       ship2.position.x - ship1.position.x))) < shieldAngle

\* The held decisions that combatBehavior() sets are those of some draw.
C23_Fought ==
    \E r \in Duel.random \cup Skirmish.random :
        LET fought == AI_combatBehavior(ai, ship2, ship1, r)
        IN  /\ ai'.targetAngle = fought.targetAngle
            /\ ai'.shouldThrust = fought.shouldThrust
            /\ ai'.shouldShoot = fought.shouldShoot

\* Sun avoidance ran alone: the shield and hyperspace decisions are as held.
C23_AvoidedOnly ==
    /\ ai'.targetAngle = Atan2(center.y - ship2.position.y,
                               center.x - ship2.position.x) + PiM
    /\ ai'.shouldThrust /\ ~ai'.shouldShoot
    /\ ai'.shouldShield = ai.shouldShield
    /\ ai'.shouldHyperspace = ai.shouldHyperspace

\* The first behaviour that applies is the only one to change what is held.
C23_FirstOnly ==
    C20_Evaluated
        => IF C21_DistanceToSun < safeDistanceFromSun THEN C23_AvoidedOnly
           ELSE IF C21_DistanceToSun < emergencyDistanceFromSun
                THEN /\ ai'.shouldHyperspace
                     /\ ai'.targetAngle = ai.targetAngle
                     /\ ai'.shouldThrust = ai.shouldThrust
                     /\ ai'.shouldShoot = ai.shouldShoot
           ELSE IF C23_Facing
                THEN /\ ai'.shouldShield
                     /\ ai'.targetAngle = ai.targetAngle
                     /\ ai'.shouldThrust = ai.shouldThrust
                     /\ ai'.shouldShoot = ai.shouldShoot
           ELSE C23_Fought

\* Sun avoidance runs alone; otherwise the defensive behaviour and combat
\* both run.
C23_AvoidElseBoth ==
    C20_Evaluated
        => IF C21_DistanceToSun < safeDistanceFromSun THEN C23_AvoidedOnly
           ELSE /\ ~ai'.shouldHyperspace
                /\ ai'.shouldShield = C23_Facing
                /\ C23_Fought

\* C23 as stated: each AI evaluation executes exactly one of the four
\* behaviours (sun avoidance, emergency hyperspace, defensive shielding,
\* combat), the first applicable one in that order; the behaviours after it
\* do not run and do not change the held decisions in that evaluation.
C23_ExactlyOne == [][C23_FirstOnly]_vars

\* C23 amended: an evaluation with the AI ship nearer than 250 to the sun runs
\* sun avoidance alone (heading away from the sun, thrust on, shoot off, shield
\* and hyperspace as held); every other evaluation runs the defensive
\* behaviour (hyperspace off, shield on exactly when the opponent is near and
\* facing) and then combat (heading, thrust, shoot), both in that evaluation.
C23_AvoidOrDefendAndFight == [][C23_AvoidElseBoth]_vars

\* An evaluation has just raised the shield and, in the same call, turned the
\* heading toward the opponent.
C23_Witness ==
    /\ gameMode = "ai" /\ pc = "gravity"
    /\ ai.frameCounter % ai.updateInterval = 0
    /\ ai.branch = "combat"
    /\ ai.shouldShield
    /\ ai.targetAngle < 0
    /\ Vector2_distanceTo(ship2.position, center) >= safeDistanceFromSun

(***************************************************************************)
(* C24: the held shield decision                                           *)
(***************************************************************************)
\* C24: after every AI evaluation the held shield decision is true if the
\* opponent is within 200 units and the opponent's heading is within 0.2 rad
\* of the direction to the AI ship, and false otherwise, whichever branch the
\* evaluation took.
C24_ShieldFollowsThreat ==
    [][C20_Evaluated => (ai'.shouldShield <=> C23_Facing)]_vars

(***************************************************************************)
(* C25: update() with a ship inactive                                      *)
(***************************************************************************)
\* C25: when AI.update() is called while the AI ship or its opponent is
\* inactive, it returns a command in which rotateLeft, rotateRight, thrust,
\* shoot, shield and hyperspace are all false, and it leaves frameCounter,
\* targetAngle and the held thrust/shoot/shield/hyperspace decisions unchanged.
C25_NoOpWhenInactive ==
    [][C20_Called /\ (~ship2.active \/ ~ship1.active)
           => /\ ai'.command = Command(FALSE, FALSE, FALSE, FALSE, FALSE, FALSE)
              /\ ai'.frameCounter = ai.frameCounter
              /\ ai'.targetAngle = ai.targetAngle
              /\ ai'.shouldThrust = ai.shouldThrust
              /\ ai'.shouldShoot = ai.shouldShoot
              /\ ai'.shouldShield = ai.shouldShield
              /\ ai'.shouldHyperspace = ai.shouldHyperspace]_vars

\* update() has just returned the all-false command for a tick that began
\* with ship 1 destroyed, while the AI holds a decision to thrust.
C25_Witness ==
    /\ gameMode = "ai" /\ pc = "gravity"
    /\ ~ship1.active /\ ship1.respawnTimer < respawnDelay
    /\ ship2.active
    /\ ai.shouldThrust
    /\ ai.command = Idle

(***************************************************************************)
(* C26: the cadence of the evaluations                                     *)
(***************************************************************************)
\* What the AI holds between two evaluations.
C26_Held(a) ==
    <<a.targetAngle, a.shouldThrust, a.shouldShoot, a.shouldShield, a.shouldHyperspace>>

\* A call with both ships active counts one frame; when the count is a
\* multiple of updateInterval what is held afterwards is what makeDecisions()
\* leaves, otherwise it is what was held before; the command carries the held
\* thrust, shoot, shield and hyperspace.
C26_Call ==
    C20_Called /\ ship2.active /\ ship1.active
        => /\ ai'.frameCounter = ai.frameCounter + 1
           /\ ai'.updateInterval = ai.updateInterval
           /\ IF ai'.frameCounter % ai.updateInterval = 0
              THEN \E r \in Duel.random :
                      C26_Held(ai') =
                          C26_Held(AI_makeDecisions([ai EXCEPT !.frameCounter = @ + 1],
                                                    ship2, ship1, r))
              ELSE C26_Held(ai') = C26_Held(ai) /\ ai'.branch = ai.branch
           /\ ai'.command.thrust = ai'.shouldThrust
           /\ ai'.command.shoot = ai'.shouldShoot
           /\ ai'.command.shield = ai'.shouldShield
           /\ ai'.command.hyperspace = ai'.shouldHyperspace

\* C26: makeDecisions runs on exactly those AI.update() calls (made with both
\* ships active) at which frameCounter, incremented once per such call, is a
\* multiple of updateInterval; on every other call the held targetAngle and
\* thrust/shoot/shield/hyperspace decisions are unchanged and are passed
\* unchanged into the emitted command.
C26_Cadence == [][C26_Call]_vars

\* Between the first and the second evaluation a call has just passed the
\* held thrust and fire into the command, with the ship not yet on the held
\* heading.
C26_Witness ==
    /\ gameMode = "ai" /\ pc = "gravity"
    /\ ship1.active /\ ship2.active
    /\ ai.frameCounter > ai.updateInterval
    /\ ai.frameCounter % ai.updateInterval # 0
    /\ ai.shouldThrust /\ ai.command.thrust
    /\ ai.command.rotateLeft \/ ai.command.rotateRight

(***************************************************************************)
(* C27: the rotation flags of the command                                  *)
(***************************************************************************)
\* The signed difference from the AI ship's angle, at the call, to the heading
\* held after it.
C27_Diff == AI_getAngleDifference(ship2.angle, ai'.targetAngle)

\* The flags follow the sign of the difference outside the dead zone.
C27_BySign ==
    /\ ai'.command.rotateRight <=> C27_Diff > rotateThreshold
    /\ ai'.command.rotateLeft <=> C27_Diff < -rotateThreshold

C27_NotBoth == ~(ai'.command.rotateLeft /\ ai'.command.rotateRight)

\* C27 as stated: in every command emitted by the AI, rotateLeft and
\* rotateRight are never both true: rotateRight is true iff the shortest signed
\* difference from the ship's angle to targetAngle exceeds +0.05, rotateLeft is
\* true iff it is below -0.05, and both are false inside the dead zone.
C27_Rotation == [][C20_Called => C27_NotBoth /\ C27_BySign]_vars

\* C27 amended: no command has both flags true; in every command emitted
\* while both ships are active rotateRight is true iff the difference exceeds
\* +0.05 and rotateLeft iff it is below -0.05; the command emitted while either
\* ship is inactive has both flags false whatever the difference.
C27_RotationWhileActive ==
    [][C20_Called
           => /\ C27_NotBoth
              /\ IF ship2.active /\ ship1.active THEN C27_BySign
                 ELSE ~ai'.command.rotateLeft /\ ~ai'.command.rotateRight]_vars

\* A command has just been emitted with rotateRight alone while both ships
\* are active, the ship being short of the held heading.
C27_Witness ==
    /\ gameMode = "ai" /\ pc = "gravity"
    /\ ship1.active /\ ship2.active
    /\ ai.command.rotateRight /\ ~ai.command.rotateLeft
    /\ AI_getAngleDifference(ship2.angle, ai.targetAngle) > 0

(***************************************************************************)
(* C28: getAngleDifference                                                 *)
(***************************************************************************)
\* C28: getAngleDifference(a, b) returns, for any two angles a and b of
\* arbitrary winding, a value d with -pi < d <= pi that is congruent to b - a
\* modulo 2 pi, and getAngleDifference(a, a) = 0.
C28_HalfOpenRange ==
    op = "getAngleDifference"
        => /\ -PiM < ret.diff /\ ret.diff <= PiM
           /\ (ret.diff - (ret.angle2 - ret.angle1)) % TwoPiM = 0
           /\ ret.angle1 = ret.angle2 => ret.diff = 0

\* The same with both ends of the range allowed.
C28_ClosedRange ==
    op = "getAngleDifference"
        => /\ -PiM <= ret.diff /\ ret.diff <= PiM
           /\ (ret.diff - (ret.angle2 - ret.angle1)) % TwoPiM = 0
           /\ ret.angle1 = ret.angle2 => ret.diff = 0

(***************************************************************************)
(* C29: the sun's pull                                                     *)
(***************************************************************************)
\* The vector from the body of the last getGravitationalForce call to the
\* sun, in tenths of a pixel, and its squared length.
C29_ToSun ==
    Vec(Quot(center.x - ret.position.x, 100), Quot(center.y - ret.position.y, 100))

C29_DistanceSquared == C29_ToSun.x * C29_ToSun.x + C29_ToSun.y * C29_ToSun.y

\* G * M * m / d^2 in thousandths.
C29_Magnitude == (((G * sunMass * ret.mass) \div 1000) * 100) \div C29_DistanceSquared

\* C29: Sun.getGravitationalForce(position, mass, G) returns the zero vector
\* when the distance d from the body to the sun is below the sun's radius,
\* and otherwise a vector pointing from the body toward the sun with magnitude
\* G*M*m/d^2, including at d exactly equal to the radius.
C29_InverseSquare ==
    op = "getGravitationalForce"
        => IF C29_DistanceSquared < (sunRadius \div 100) * (sunRadius \div 100)
           THEN ret.force = Vec(0, 0)
           ELSE /\ Abs(Vector2_magnitude(ret.force) - C29_Magnitude) <= 2
                /\ ret.force.x * C29_ToSun.x + ret.force.y * C29_ToSun.y >= 0
                /\ C29_Magnitude >= 2
                       => ret.force.x * C29_ToSun.x + ret.force.y * C29_ToSun.y > 0
                /\ Abs(ret.force.x * C29_ToSun.y - ret.force.y * C29_ToSun.x)
                       <= Abs(C29_ToSun.x) + Abs(C29_ToSun.y)

\* The force on a ship exactly at the sun's radius, off both axes.
C29_Witness ==
    /\ op = "getGravitationalForce"
    /\ C29_DistanceSquared = (sunRadius \div 100) * (sunRadius \div 100)
    /\ ret.mass = shipMass
    /\ ret.force.x < 0 /\ ret.force.y > 0

(***************************************************************************)
(* C30: the wrap through the centre                                        *)
(***************************************************************************)
\* A body with position and velocity `before` has been updated to `after`:
\* its integrated position, when farther than the play radius from the
\* centre, is replaced by the point opposite to it at 0.9 * play radius, and
\* is kept otherwise; the velocity is kept.
C30_Wrapped(before, after) ==
    LET moved == Vector2_add(before.position, before.velocity)
        m == Vec(Quot(moved.x - center.x, 100), Quot(moved.y - center.y, 100))
        p == Vec(Quot(after.position.x - center.x, 100),
                 Quot(after.position.y - center.y, 100))
    IN  /\ after.velocity = before.velocity
        /\ Vector2_distanceTo(after.position, center) <= playRadius
        /\ IF Vector2_distanceTo(moved, center) > playRadius
           THEN /\ Abs(Vector2_distanceTo(after.position, center)
                           - (playRadius * 9) \div 10) <= 200
                /\ p.x * m.x + p.y * m.y < 0
                /\ Abs(p.x * m.y - p.y * m.x) <= Abs(m.x) + Abs(m.y)
           ELSE after.position = moved

C30_ShipUpdate == op' = "update" /\ ship1.active => C30_Wrapped(ship1, ship1')

C30_AsteroidUpdate ==
    op' = "asteroid.update"
        => \A k \in DOMAIN asteroids : C30_Wrapped(asteroids[k], asteroids'[k])

\* C30: in Ship.update and Asteroid.update a body whose integrated position
\* lies farther than the play radius from the arena centre is relocated to the
\* antipodal point at 0.9 * play radius, so at the end of every update an
\* active ship lies within the play radius; the relocation leaves the velocity
\* unchanged, and a body within the play radius is not relocated.
C30_WrapThroughCentre == [][C30_ShipUpdate /\ C30_AsteroidUpdate]_vars

\* The ship that was flying out over the right rim is now on the left, at 0.9
\* of the play radius, still flying to the right, and so is the asteroid.
C30_Witness ==
    /\ op = "asteroid.update"
    /\ ship1.active
    /\ ship1.velocity = Vec(2000, 0) /\ ship1.position.x < center.x - 300000
    /\ asteroids[1].velocity = Vec(2000, 0) /\ asteroids[1].position.x < center.x - 300000

(***************************************************************************)
(* C31: operations on an inactive ship                                     *)
(***************************************************************************)
C31_Operations ==
    {"rotate", "thrust", "applyForce", "shoot", "setShield", "hyperspace", "die", "addFuel"}

C31_Same(before, after) ==
    /\ after.position = before.position
    /\ after.velocity = before.velocity
    /\ after.angle = before.angle
    /\ after.energy = before.energy
    /\ after.fuel = before.fuel
    /\ after.hyperspaceCharges = before.hyperspaceCharges
    /\ after.hyperspaceCooldown = before.hyperspaceCooldown
    /\ after.shootCooldown = before.shootCooldown
    /\ after.lives = before.lives

\* C31: every Ship operation other than update (rotate, thrust, applyForce,
\* shoot, setShield, hyperspace, die, addFuel) called on an inactive ship
\* leaves its position, velocity, angle, energy, fuel, charges, cooldowns and
\* lives unchanged, and shoot returns null.
C31_InactiveInert ==
    [][op' \in C31_Operations /\ ~ship1.active
          => C31_Same(ship1, ship1') /\ ret' = NoBullet]_vars

\* The same with applyForce left out of the operations: this much holds.
C31_InactiveInertButForce ==
    [][op' \in C31_Operations \ {"applyForce"} /\ ~ship1.active
          => C31_Same(ship1, ship1') /\ ret' = NoBullet]_vars

(***************************************************************************)
(* C32: respawn and resetToStart                                           *)
(***************************************************************************)
C32_AtStart(s) ==
    /\ s.position = s.startPosition
    /\ s.angle = s.startAngle
    /\ s.velocity = Vec(0, 0)
    /\ s.energy = maxEnergy
    /\ s.fuel = maxFuel
    /\ s.hyperspaceCharges = maxHyperspaceCharges
    /\ s.hyperspaceCooldown = 0
    /\ ~s.shieldActive

C32_AfterResetToStart ==
    op' = "resetToStart"
        => /\ C32_AtStart(ship1')
           /\ ship1'.lives = ship1.lives
           /\ ship1'.active = ship1.active

C32_AfterRespawn == op' = "respawn" /\ ship1.lives > 0 => C32_AtStart(ship1')

\* C32: after respawn() of a ship with lives > 0, and after resetToStart(),
\* the ship is at its start position and start angle with zero velocity,
\* energy = maxEnergy, fuel = maxFuel, hyperspaceCharges = 3,
\* hyperspaceCooldown = 0 and shield down; resetToStart() on its own never
\* changes lives or the active flag.
C32_RestoredToStart == [][C32_AfterResetToStart /\ C32_AfterRespawn]_vars

\* resetToStart() has acted on a wreck that had flown, turned and thrust with
\* the fuel subsystem on before it was destroyed: it is back at the start with
\* a full tank, and still a wreck with the lives it had.
C32_Witness ==
    /\ op = "resetToStart"
    /\ ~ship1.active /\ ship1.lives = startLives - 1 /\ ship1.respawnTimer > 0
    /\ ship1.fuelEnabled
    /\ calls.thrust > 0
    /\ C32_AtStart(ship1)

(***************************************************************************)
(* C33: the menu keys and the key after the game is over                   *)
(***************************************************************************)
C33_Key1 == Game_handleMenuInput("1") => state' = "playing" /\ gameMode' = "pvp"

C33_Key2 == Game_handleMenuInput("2") => state' = "playing" /\ gameMode' = "ai"

C33_Controller ==
    Game_handleMenuInput("1") \/ Game_handleMenuInput("2")
        => (ai' # NoAI <=> gameMode' = "ai")

C33_Space == HandleGameOverInput => state' = "playing"

\* C33: from the menu, pressing 1 starts a Player-vs-Player match and
\* pressing 2 starts a Player-vs-Computer match (the AI controller exists
\* exactly in the Player-vs-Computer mode); after the game is over, pressing
\* space leads to a new game.
C33_MenuKeys == [][C33_Key1 /\ C33_Key2 /\ C33_Controller /\ C33_Space]_vars

\* What the keys do: 1 starts a match against the computer, 2 a match between
\* two players, and space after the game is over leads back to the menu.
C33_MenuKeysAsCoded ==
    [][/\ Game_handleMenuInput("1") => state' = "playing" /\ gameMode' = "ai"
       /\ Game_handleMenuInput("2") => state' = "playing" /\ gameMode' = "pvp"
       /\ C33_Controller
       /\ HandleGameOverInput => state' = "menu" /\ gameMode' = "null"]_vars

(***************************************************************************)
(* C34: one operation per command flag per tick                            *)
(***************************************************************************)
\* The ship after one rotate step per direction held and one thrust() if held.
C34_SteeredOnce(s, input) ==
    LET a == IF input.rotateLeft THEN Ship_rotate(s, -1) ELSE s
        b == IF input.rotateRight THEN Ship_rotate(a, 1) ELSE a
    IN  IF input.thrust THEN Ship_thrust(b) ELSE b

\* The ship came out of the command block with no more than that: either with
\* the velocity and heading of one step each, or stopped by hyperspace.
C34_AtMostOnce(before, after, input) ==
    /\ after.angle = C34_SteeredOnce(before, input).angle
    /\ after.fuel = C34_SteeredOnce(before, input).fuel
    /\ \/ after.velocity = C34_SteeredOnce(before, input).velocity
       \/ input.hyperspace /\ after.velocity = Vec(0, 0)
    /\ after.hyperspaceCharges >= before.hyperspaceCharges - 1
    /\ after.shieldActive => input.shield

\* C34: each command flag causes at most one invocation of the corresponding
\* ship operation per tick: in one Game.update a ship receives at most one
\* thrust impulse (and at most one fuel debit), at most one rotate step per
\* direction, at most one hyperspace call and exactly one setShield call.
C34_OncePerTick ==
    [][pc = "loop" /\ pc' = "gravity" /\ gameMode = "pvp"
          => /\ C34_AtMostOnce(ship1, ship1', keys[1])
             /\ C34_AtMostOnce(ship2, ship2', keys[2])]_vars

\* The same for everything but thrust.
C34_OncePerTickButThrust ==
    [][pc = "loop" /\ pc' = "gravity" /\ gameMode = "pvp"
          /\ ~keys[1].thrust /\ ~keys[2].thrust
          => /\ C34_AtMostOnce(ship1, ship1', keys[1])
             /\ C34_AtMostOnce(ship2, ship2', keys[2])]_vars

(***************************************************************************)
(* C35: one round reset per death                                          *)
(***************************************************************************)
\* Neither ship has gone from active to inactive in the tick so far, this
\* step included (every accepted die() takes a life).
C35_NoDeathThisTick == ship1'.lives = tickLives[1] /\ ship2'.lives = tickLives[2]

\* C35: the round reset of the survivor (resetToStart of the opponent, and the
\* clearing of all projectiles) is performed only in a tick in which the
\* other ship actually goes from active to inactive, i.e. once per death; in
\* particular, during the respawn delay after a ship fell into the sun, the
\* surviving ship is not reset again and keeps its projectiles in flight.
C35_ResetOncePerDeath ==
    [][/\ pc = "bullets" /\ C35_NoDeathThisTick => ship1' = ship1 /\ ship2' = ship2
       /\ pc = "sun" /\ C35_NoDeathThisTick
             => ship1' = ship1 /\ ship2' = ship2 /\ bullets' = bullets]_vars

\* The same for the ticks in which no wreck lies in the sun or under a
\* projectile: there the reset does come with a death only.
C35_ResetOncePerDeathOfActive ==
    [][/\ pc = "bullets" /\ C35_NoDeathThisTick /\ ship1.active /\ ship2.active
             => ship1' = ship1 /\ ship2' = ship2
       /\ pc = "sun" /\ C35_NoDeathThisTick /\ ship1.active /\ ship2.active
             => ship1' = ship1 /\ ship2' = ship2 /\ bullets' = bullets]_vars

(***************************************************************************)
(* C36: the round reset after a death                                      *)
(***************************************************************************)
\* In this step the ship `dead` goes from active to inactive and the other
\* ship does not; then the other ship is at its start and no projectile is
\* left.
C36_Reset(dead, deadAfter, other, otherAfter) ==
    deadAfter.lives < dead.lives /\ otherAfter.lives = other.lives
        => /\ otherAfter.position = otherAfter.startPosition
           /\ otherAfter.angle = otherAfter.startAngle
           /\ otherAfter.velocity = Vec(0, 0)
           /\ otherAfter.energy = maxEnergy
           /\ otherAfter.hyperspaceCharges = maxHyperspaceCharges
           /\ otherAfter.hyperspaceCooldown = 0
           /\ ~otherAfter.shieldActive
           /\ bullets' = <<>>

\* C36: whenever exactly one ship dies in a tick (by projectile, sun, asteroid
\* or hyperspace malfunction) the same round reset follows in that tick: the
\* surviving ship is reset to its start state and the projectile list is
\* emptied.
C36_ResetAfterEveryDeath ==
    [][/\ C36_Reset(ship1, ship1', ship2, ship2')
       /\ C36_Reset(ship2, ship2', ship1, ship1')]_vars

\* The same for the deaths that Game.update itself deals out (projectile, sun
\* and asteroid), i.e. all but those of the command block.
C36_ResetAfterCollisionDeath ==
    [][pc # "loop" => /\ C36_Reset(ship1, ship1', ship2, ship2')
                      /\ C36_Reset(ship2, ship2', ship1, ship1')]_vars

(***************************************************************************)
(* C37: the state in which a match starts                                  *)
(***************************************************************************)
\* What startGame assigns to a ship.
C37_Placed(s) ==
    /\ s.lives = startLives
    /\ s.active
    /\ s.respawnTimer = 0
    /\ s.position = s.startPosition
    /\ s.angle = s.startAngle
    /\ s.velocity = Vec(0, 0)

C37_Fresh(s) ==
    /\ C37_Placed(s)
    /\ s.energy = maxEnergy
    /\ s.fuel = maxFuel
    /\ s.hyperspaceCharges = maxHyperspaceCharges
    /\ ~s.shieldActive
    /\ s.shootCooldown = 0
    /\ s.hyperspaceCooldown = 0

\* C37: after startGame both ships are in the same fresh state apart from
\* start position and angle, whatever state the previous match ended in:
\* lives 5, active, zero velocity, energy = maxEnergy, fuel = maxFuel,
\* hyperspaceCharges = 3, shield down, shoot cooldown 0 and hyperspace
\* cooldown 0; and the projectile and asteroid lists are empty.
C37_FreshStart ==
    [][state = "menu" /\ state' = "playing"
          => /\ C37_Fresh(ship1') /\ C37_Fresh(ship2')
             /\ bullets' = <<>> /\ asteroids' = <<>>]_vars

\* What does hold after startGame: the fields it assigns, and the empty lists.
C37_PlacedStart ==
    [][state = "menu" /\ state' = "playing"
          => /\ C37_Placed(ship1') /\ C37_Placed(ship2')
             /\ bullets' = <<>> /\ asteroids' = <<>>]_vars

(***************************************************************************)
(* C38: the energy reserve in the game loop                                *)
(***************************************************************************)
C38_EnergyPositive == ship1.energy > 0 /\ ship2.energy > 0

\* Ship.update is about to take the branch that lowers the shield at zero.
C38_AutoLower(s) == s.shieldActive /\ s.energy - shieldDrain <= 0

\* C38: in the game loop, where setShield is applied every tick before
\* Ship.update, a ship's energy is strictly positive in every reachable state:
\* holding the shield command continuously never drains energy to 0, because
\* raising the shield is refused once energy <= 5, so the auto-lower-at-zero
\* branch of Ship.update never fires.
C38_EnergyNeverZero ==
    /\ []C38_EnergyPositive
    /\ [][pc = "ships" => ~C38_AutoLower(ship1) /\ ~C38_AutoLower(ship2)]_vars

\* Ship 2 has held the shield command from the start of the match until the
\* reserve refused it: the shield is down with the key still held, and the
\* energy is at or below the threshold of 5 but above 0.
C38_Witness ==
    /\ state = "playing" /\ pc = "gravity"
    /\ keys[2].shield /\ ship2.active /\ ship2.lives = startLives
    /\ ~ship2.shieldActive
    /\ ship2.energy <= shieldMinEnergy /\ ship2.energy > 0

(***************************************************************************)
(* C39: the number of projectiles on the list                              *)
(***************************************************************************)
\* The shots one ship can fire within the lifetime of a projectile.
C39_MaxPerOwner == (bulletLifetime + shootCooldownMax - 1) \div shootCooldownMax

\* The projectiles on the list that ship p fired, active or not.
C39_Owned(p) == Cardinality({k \in DOMAIN bullets : bullets[k].ownerId = p})

\* C39: at the end of every tick the bullets list holds at most 7 projectiles
\* per owner (14 in all), given the shoot cooldown of 30 ticks and the
\* projectile lifetime of 200 ticks, for any sequence of commands, deaths and
\* respawns.
C39_AtMostSevenPerOwner ==
    pc = "loop"
        => /\ C39_Owned(1) <= C39_MaxPerOwner
           /\ C39_Owned(2) <= C39_MaxPerOwner
           /\ Len(bullets) <= 2 * C39_MaxPerOwner

\* At the end of a tick seven projectiles of ship 1 are on the list, the
\* oldest fired 180 ticks before the youngest and still in flight.
C39_Witness ==
    /\ pc = "loop" /\ state = "playing"
    /\ C39_Owned(1) = C39_MaxPerOwner
    /\ \A k \in DOMAIN bullets : bullets[k].active
    /\ \E j, k \in DOMAIN bullets :
          bullets[k].firedAt - bullets[j].firedAt = 6 * shootCooldownMax

(***************************************************************************)
(* C40: the length of the respawn delay                                    *)
(***************************************************************************)
\* The ship has died in this match and has lives left.
C40_Downed(s) == 0 < s.lives /\ s.lives < startLives

\* At the end of a tick, `frame` ticks of the match are over.  A ship that
\* died in tick t >= 0 is not active before the end of tick t + d, so while
\* no more than d ticks are over a ship that has died is still inactive.
C40_InactiveFor(d) ==
    pc = "loop" /\ state = "playing" /\ frame <= d
        => /\ C40_Downed(ship1) => ~ship1.active
           /\ C40_Downed(ship2) => ~ship2.active

\* C40: a ship that dies in tick t with lives remaining is inactive for the
\* same number of ticks whatever killed it: it is active again at the end of
\* tick t + respawnDelay (120) and not before, both for deaths that occur
\* before Ship.update in the tick (projectile hit, hyperspace malfunction) and
\* for deaths that occur after it (sun, ship-ship, asteroid).
C40_SameDelay == C40_InactiveFor(respawnDelay)

\* One tick less holds for every death.
C40_DelayLessOne == C40_InactiveFor(respawnDelay - 1)

====
